---------------------------- MODULE Spec2Model ----------------------------
(***************************************************************************)
(* Model of FEXCore's ConstProp IR pass                                    *)
(* (FEXCore/Source/Interface/IR/Passes/ConstProp.cpp).                     *)
(*                                                                         *)
(* A uint64_t is modelled as the set of its set bit positions, a subset    *)
(* of 0..63, so that 64-bit wrap-around arithmetic, shifts and masks are   *)
(* exact.                                                                  *)
(***************************************************************************)
EXTENDS Integers, Sequences, FiniteSets, TLC

(***************************************************************************)
(* 64-bit unsigned arithmetic on bit sets                                  *)
(***************************************************************************)
U64 == 0..63

Zero == {}

AllOnes64 == U64

\* The bit set of a small natural number.
Bits(n) == {i \in 0..30 : (n \div (2 ^ i)) % 2 = 1}

\* The number a bit set below bit 31 stands for.
RECURSIVE ToNat(_)
ToNat(S) ==
    IF S = {} THEN 0
    ELSE LET i == CHOOSE j \in S : TRUE IN (2 ^ i) + ToNat(S \ {i})

\* The mask with the low k bits set: k >= 64 gives all ones.
LowBits(k) == {i \in U64 : i < k}

Shl(S, k) == {i + k : i \in S} \cap U64

Shr(S, k) == {i - k : i \in S} \cap U64

NotU64(S) == U64 \ S

XorU64(S, T) == (S \ T) \cup (T \ S)

\* Addition modulo 2^64 with carry-in c: the carry into bit i comes from a
\* lower bit where both operands are set (or from the carry-in), provided
\* no bit in between is clear in both operands.
AddCarry(S, T, c) ==
    LET G == S \cap T
        K == U64 \ (S \cup T)
        Carry(i) ==
            \/ \E j \in G : j < i /\ \A k \in K : k < j \/ k >= i
            \/ c = 1 /\ \A k \in K : k >= i
    IN {i \in U64 : ((i \in S) # (i \in T)) # Carry(i)}

AddU64(S, T) == AddCarry(S, T, 0)

SubU64(S, T) == AddCarry(S, NotU64(T), 1)

NegU64(S) == AddCarry({}, NotU64(S), 1)

\* Multiplication modulo 2^64: the sum of S << i over the bits i of T that
\* lie in lo..hi.
RECURSIVE MulRange(_, _, _, _)
MulRange(S, T, lo, hi) ==
    IF T \cap (lo..hi) = {} THEN {}
    ELSE IF lo = hi THEN Shl(S, lo)
    ELSE LET mid == (lo + hi) \div 2
         IN AddU64(MulRange(S, T, lo, mid), MulRange(S, T, mid + 1, hi))

MulU64(S, T) == MulRange(S, T, 0, 63)

\* Arithmetic (sign-propagating) right shift of an int64_t.
Sar(S, k) == Shr(S, k) \cup (IF 63 \in S THEN {i \in U64 : i >= 64 - k} ELSE {})

\* std::popcount and std::countr_zero.
Popcount(S) == Cardinality(S)

CountrZero(S) == IF S = {} THEN 64 ELSE CHOOSE i \in S : \A j \in S : i <= j


(***************************************************************************)
(* Host-immediate predicates                                               *)
(***************************************************************************)
\* getMask with the byte count taken for a bit count.
getMaskOfBits(Size) == Shr(AllOnes64, 64 - Size)

\* getMask: (~0ULL) >> (64 - Size * 8), for a header of the given Size.
getMask(Size) == Shr(AllOnes64, 64 - Size * 8)

\* ((imm ^ (imm >> 1)) & ((1ULL << (width - 1)) - 1)) == 0
HasConsecutiveBits(imm, width) ==
    IF width = 0 THEN TRUE
    ELSE XorU64(imm, Shr(imm, 1)) \cap LowBits(width - 1) = {}

\* vixl::aarch64::Assembler::IsImmLogical: the value, repeated to 64 bits
\* when the register is 32 bits wide, is a rotated run of contiguous set
\* bits replicated over elements of 2, 4, 8, 16, 32 or 64 bits, and is
\* neither all zeros nor all ones.
AssemblerIsImmLogical(imm, width) ==
    LET lo == imm \cap LowBits(32)
        v  == IF width = 32 THEN lo \cup Shl(lo, 32) ELSE imm
        Edges(e) == {i \in 0..(e - 1) : (i \in v) # (((i + 1) % e) \in v)}
        Periodic(e) == \A i \in U64 : (i \in v) <=> (((i + e) % 64) \in v)
    IN \E e \in {2, 4, 8, 16, 32, 64} :
           Periodic(e) /\ Cardinality(Edges(e)) = 2

\* vixl::aarch64::Assembler::IsImmAddSub: a 12-bit unsigned field,
\* optionally shifted left by 12.
AssemblerIsImmAddSub(imm) ==
    \/ imm \subseteq LowBits(12)
    \/ imm \subseteq (LowBits(24) \ LowBits(12))

IsImmLogical(imm, width) ==
    AssemblerIsImmLogical(imm, IF width < 32 THEN 32 ELSE width)

IsImmAddSub(imm) == AssemblerIsImmAddSub(imm)

\* ((int64_t)imm >= -256) && ((int64_t)imm <= 255)
IsSIMM9Range(imm) ==
    IF 63 \in imm THEN (U64 \ LowBits(8)) \subseteq imm
    ELSE imm \subseteq LowBits(8)

\* AccessSize is a power of two: imm & (AccessSize - 1) are the low
\* log2(AccessSize) bits and imm / AccessSize is a right shift.
IsImmMemory(imm, AccessSize) ==
    LET k == CHOOSE j \in 0..7 : 2 ^ j = AccessSize
    IN IF IsSIMM9Range(imm) THEN TRUE
       ELSE IF imm \cap LowBits(k) = {} /\ Shr(imm, k) \subseteq LowBits(12)
            THEN TRUE
            ELSE FALSE

IsTSOImm9(imm) == IF IsSIMM9Range(imm) THEN TRUE ELSE FALSE


(***************************************************************************)
(* The IR and the emitter interface the pass uses                          *)
(*                                                                         *)
(* An IR is a record [nodes, blocks, cursor]: nodes is the node arena in   *)
(* allocation order (a node's handle is its index), blocks the program     *)
(* order (a sequence of blocks, each a sequence of handles), cursor the    *)
(* write cursor <<block, handle>>: a new node lands in that block right    *)
(* after that handle (handle 0: at the head of the block).  Args holds the *)
(* operand edges, 0 being the invalid edge; argument k of the source is     *)
(* Args[k + 1].                                                            *)
(***************************************************************************)
InvalidNode == 0

Node(op, size, args) ==
    [Op |-> op, Size |-> size, Args |-> args, Constant |-> Zero, lsb |-> 0,
     Width |-> 0, Shift |-> 0, ShiftType |-> "LSL", OffsetType |-> "SXTX",
     ID |-> 0]

Arg(n, k) == IF k + 1 \in DOMAIN n.Args THEN n.Args[k + 1] ELSE InvalidNode

RECURSIVE Flatten(_)
Flatten(bs) == IF bs = <<>> THEN <<>> ELSE Head(bs) \o Flatten(Tail(bs))

\* GetAllCode: every code node, block after block.
GetAllCode(I) == Flatten(I.blocks)

IndexOf(seq, h) == CHOOSE i \in DOMAIN seq : seq[i] = h

BlockOf(I, h) ==
    CHOOSE b \in DOMAIN I.blocks : \E i \in DOMAIN I.blocks[b] : I.blocks[b][i] = h

\* The position of a node in program order.
PosOf(I, h) == IndexOf(GetAllCode(I), h)

\* GetID: the node's identifier.
GetID(I, h) == I.nodes[h].ID

GetOpHeader(I, a) == I.nodes[a]

\* IsValueConstant: whether the edge refers to a Constant node ...
IsValueConstant(I, a) == a # InvalidNode /\ I.nodes[a].Op = "Constant"

\* ... and the value it then stores through its out-parameter.
ConstantOf(I, a) == I.nodes[a].Constant

SetWriteCursor(I, h) == [I EXCEPT !.cursor = <<BlockOf(I, h), h>>]

SetWriteCursorBefore(I, h) ==
    LET b == BlockOf(I, h)
        i == IndexOf(I.blocks[b], h)
    IN [I EXCEPT !.cursor = <<b, IF i = 1 THEN 0 ELSE I.blocks[b][i - 1]>>]

MaxID(I) ==
    CHOOSE m \in {I.nodes[h].ID : h \in DOMAIN I.nodes} :
        \A h \in DOMAIN I.nodes : I.nodes[h].ID <= m

\* An emitter constructor: the new node is allocated at the end of the
\* arena, with the next identifier, and linked in after the write cursor,
\* which moves onto it.  The new node's handle is Len(nodes) of the result.
Emit(I, n) ==
    LET h   == Len(I.nodes) + 1
        b   == I.cursor[1]
        blk == I.blocks[b]
        at  == IF I.cursor[2] = 0 THEN 0 ELSE IndexOf(blk, I.cursor[2])
        new == SubSeq(blk, 1, at) \o <<h>> \o SubSeq(blk, at + 1, Len(blk))
    IN [nodes  |-> Append(I.nodes, [n EXCEPT !.ID = MaxID(I) + 1]),
        blocks |-> [I.blocks EXCEPT ![b] = new],
        cursor |-> <<b, h>>]

LastEmitted(I) == Len(I.nodes)

\* _Constant(v): the one-argument form emits a 64-bit Constant.
EmitConstant(I, v) == Emit(I, [Node("Constant", 8, <<>>) EXCEPT !.Constant = v])

EmitInlineConstant(I, v) ==
    Emit(I, [Node("InlineConstant", 8, <<>>) EXCEPT !.Constant = v])

EmitInlineEntrypointOffset(I, size, off) ==
    Emit(I, [Node("InlineEntrypointOffset", size, <<>>) EXCEPT !.Constant = off])

ReplaceNodeArgument(I, h, k, new) ==
    [I EXCEPT !.nodes[h].Args[k + 1] = new]

\* Redirect the uses of old that lie at the given positions of the program.
RedirectUses(I, old, new, where) ==
    [I EXCEPT !.nodes =
        [h \in DOMAIN I.nodes |->
            IF h \in where
            THEN [I.nodes[h] EXCEPT !.Args =
                    [k \in DOMAIN I.nodes[h].Args |->
                        IF I.nodes[h].Args[k] = old THEN new
                        ELSE I.nodes[h].Args[k]]]
            ELSE I.nodes[h]]]

ReplaceAllUsesWith(I, old, new) == RedirectUses(I, old, new, DOMAIN I.nodes)

\* The uses at or after position pos of the program order.
ReplaceUsesWithAfter(I, old, new, pos) ==
    LET code == GetAllCode(I)
    IN RedirectUses(I, old, new, {code[i] : i \in {j \in DOMAIN code : j >= pos}})

\* The node becomes a Constant carrying value; its uses are preserved.
ReplaceWithConstant(I, h, value) ==
    [I EXCEPT !.nodes[h] =
        [I.nodes[h] EXCEPT !.Op = "Constant", !.Args = <<>>, !.Constant = value]]

\* The nodes that reference h through some operand edge.
Users(I, h) ==
    {u \in DOMAIN I.nodes : \E k \in DOMAIN I.nodes[u].Args : I.nodes[u].Args[k] = h}


(***************************************************************************)
(* C2: ConstProp::ConstantPropagation                                      *)
(*                                                                         *)
(* Each case yields the IR after the case and a note of the rewrite it     *)
(* made: kind "constant" (ReplaceWithConstant of node with value),         *)
(* "redirect" (ReplaceAllUsesWith(node, target)), "flip" (opcode negated   *)
(* and right operand replaced by target) or "none".  op and size are the   *)
(* node's opcode and Size before the rewrite.                              *)
(***************************************************************************)
NoRewrite ==
    [kind |-> "none", node |-> 0, target |-> 0, op |-> "", size |-> 0,
     value |-> Zero]

Unchanged(I) == [ir |-> I, rw |-> NoRewrite]

Folded(I, h, v) ==
    [ir |-> ReplaceWithConstant(I, h, v),
     rw |-> [kind |-> "constant", node |-> h, target |-> h,
             op |-> I.nodes[h].Op, size |-> I.nodes[h].Size, value |-> v]]

Redirected(I, h, t) ==
    [ir |-> ReplaceAllUsesWith(I, h, t),
     rw |-> [kind |-> "redirect", node |-> h, target |-> t,
             op |-> I.nodes[h].Op, size |-> I.nodes[h].Size, value |-> Zero]]

\* The value IsValueConstant leaves in a zero-initialised out-parameter.
ValueOr0(I, a) == IF IsValueConstant(I, a) THEN ConstantOf(I, a) ELSE Zero

IsLoad(op) == op \in {"LoadMem", "LoadMemTSO", "LoadContext"}

\* val->Op == OP_SELECT with constant third and fourth arguments 1 and 0.
IsSelectOneZero(I, a) ==
    LET val == GetOpHeader(I, a)
    IN /\ val.Op = "Select"
       /\ IsValueConstant(I, Arg(val, 2))
       /\ IsValueConstant(I, Arg(val, 3))
       /\ ConstantOf(I, Arg(val, 2)) = Bits(1)
       /\ ConstantOf(I, Arg(val, 3)) = Zero

\* The opcode left as it is.
SameOp(op) == op

NegatedOp(op) ==
    CASE op = "Add" -> "Sub"
      [] op = "Sub" -> "Add"
      [] op = "AddWithFlags" -> "SubWithFlags"
      [] op = "SubWithFlags" -> "AddWithFlags"

PropAddSub(I, h) ==
    LET n  == I.nodes[h]
        IsConstant1 == IsValueConstant(I, Arg(n, 0))
        IsConstant2 == IsValueConstant(I, Arg(n, 1))
        Constant1 == ValueOr0(I, Arg(n, 0))
        Constant2 == ValueOr0(I, Arg(n, 1))
    IN IF IsConstant1 /\ IsConstant2 /\ n.Op = "Add"
       THEN Folded(I, h, AddU64(Constant1, Constant2) \cap getMask(n.Size))
       ELSE IF IsConstant1 /\ IsConstant2 /\ n.Op = "Sub"
       THEN Folded(I, h, SubU64(Constant1, Constant2) \cap getMask(n.Size))
       ELSE IF IsConstant2 /\ ~IsImmAddSub(Constant2) /\ IsImmAddSub(NegU64(Constant2))
       THEN LET I1 == [I EXCEPT !.nodes[h].Op = NegatedOp(n.Op)]
                I2 == SetWriteCursorBefore(I1, h)
                I3 == EmitConstant(I2, NegU64(Constant2))
                NegConstant == LastEmitted(I3)
            IN [ir |-> ReplaceNodeArgument(I3, h, 1, NegConstant),
                rw |-> [kind |-> "flip", node |-> h, target |-> NegConstant,
                        op |-> n.Op, size |-> n.Size, value |-> Zero]]
       ELSE Unchanged(I)

PropSubShift(I, h) ==
    LET n == I.nodes[h]
    IN IF /\ IsValueConstant(I, Arg(n, 0))
          /\ IsValueConstant(I, Arg(n, 1))
          /\ n.ShiftType = "LSL"
       THEN Folded(I, h,
                SubU64(ConstantOf(I, Arg(n, 0)), Shl(ConstantOf(I, Arg(n, 1)), n.Shift))
                    \cap getMask(n.Size))
       ELSE Unchanged(I)

PropAnd(I, h) ==
    LET n == I.nodes[h]
        Both == IsValueConstant(I, Arg(n, 0)) /\ IsValueConstant(I, Arg(n, 1))
        Constant1 == ValueOr0(I, Arg(n, 0))
        \* The second IsValueConstant runs only when the first succeeded.
        Constant2 == IF IsValueConstant(I, Arg(n, 0)) THEN ValueOr0(I, Arg(n, 1)) ELSE Zero
    IN IF Both
       THEN Folded(I, h, (Constant1 \cap Constant2) \cap getMask(n.Size))
       ELSE IF Constant2 = Bits(1)
       THEN IF IsSelectOneZero(I, Arg(n, 0))
            THEN Redirected(I, h, Arg(n, 0))
            ELSE Unchanged(I)
       ELSE IF Arg(n, 0) = Arg(n, 1)
       THEN Redirected(I, h, Arg(n, 0))
       ELSE Unchanged(I)

PropOr(I, h) ==
    LET n == I.nodes[h]
    IN IF IsValueConstant(I, Arg(n, 0)) /\ IsValueConstant(I, Arg(n, 1))
       THEN Folded(I, h, ConstantOf(I, Arg(n, 0)) \cup ConstantOf(I, Arg(n, 1)))
       ELSE IF Arg(n, 0) = Arg(n, 1)
       THEN Redirected(I, h, Arg(n, 0))
       ELSE Unchanged(I)

PropOrlshl(I, h) ==
    LET n == I.nodes[h]
    IN IF IsValueConstant(I, Arg(n, 0)) /\ IsValueConstant(I, Arg(n, 1))
       THEN Folded(I, h, ConstantOf(I, Arg(n, 0)) \cup Shl(ConstantOf(I, Arg(n, 1)), n.Shift))
       ELSE Unchanged(I)

PropOrlshr(I, h) ==
    LET n == I.nodes[h]
    IN IF IsValueConstant(I, Arg(n, 0)) /\ IsValueConstant(I, Arg(n, 1))
       THEN Folded(I, h, ConstantOf(I, Arg(n, 0)) \cup Shr(ConstantOf(I, Arg(n, 1)), n.Shift))
       ELSE Unchanged(I)

PropXor(I, h) ==
    LET n == I.nodes[h]
    IN IF IsValueConstant(I, Arg(n, 0)) /\ IsValueConstant(I, Arg(n, 1))
       THEN Folded(I, h, XorU64(ConstantOf(I, Arg(n, 0)), ConstantOf(I, Arg(n, 1))))
       ELSE IF Arg(n, 0) = Arg(n, 1)
       THEN LET I1 == EmitConstant(SetWriteCursor(I, h), Zero)
            IN Redirected(I1, h, LastEmitted(I1))
       ELSE IF IsValueConstant(I, Arg(n, 0)) /\ ConstantOf(I, Arg(n, 0)) = Zero
       THEN Redirected(SetWriteCursor(I, h), h, Arg(n, 1))
       ELSE IF IsValueConstant(I, Arg(n, 1)) /\ ConstantOf(I, Arg(n, 1)) = Zero
       THEN Redirected(SetWriteCursor(I, h), h, Arg(n, 0))
       ELSE Unchanged(I)

PropNeg(I, h) ==
    LET n == I.nodes[h]
    IN IF IsValueConstant(I, Arg(n, 0))
       THEN Folded(I, h, NegU64(ConstantOf(I, Arg(n, 0))))
       ELSE Unchanged(I)

\* Shifts mask the shift amount by 63 or 31 depending on operating size.
ShiftMask(Size) == IF Size = 8 THEN Bits(63) ELSE Bits(31)

PropLshl(I, h) ==
    LET n == I.nodes[h]
    IN IF IsValueConstant(I, Arg(n, 0)) /\ IsValueConstant(I, Arg(n, 1))
       THEN Folded(I, h,
                Shl(ConstantOf(I, Arg(n, 0)),
                    ToNat(ConstantOf(I, Arg(n, 1)) \cap ShiftMask(n.Size)))
                    \cap getMask(n.Size))
       ELSE IF IsValueConstant(I, Arg(n, 1)) /\ ConstantOf(I, Arg(n, 1)) = Zero
       THEN Redirected(SetWriteCursor(I, h), h, Arg(n, 0))
       ELSE Unchanged(I)

PropLshr(I, h) ==
    LET n == I.nodes[h]
    IN IF IsValueConstant(I, Arg(n, 0)) /\ IsValueConstant(I, Arg(n, 1))
       THEN Folded(I, h,
                Shr(ConstantOf(I, Arg(n, 0)),
                    ToNat(ConstantOf(I, Arg(n, 1)) \cap ShiftMask(n.Size)))
                    \cap getMask(n.Size))
       ELSE IF IsValueConstant(I, Arg(n, 1)) /\ ConstantOf(I, Arg(n, 1)) = Zero
       THEN Redirected(SetWriteCursor(I, h), h, Arg(n, 0))
       ELSE Unchanged(I)

\* IsBfeAlreadyDone with the comparison of the widths turned round.
IsBfeAlreadyDoneWider(I, src, Width) ==
    LET IROp == GetOpHeader(I, src)
    IN IF IROp.Op = "Bfe" THEN (IF IROp.Width >= Width THEN TRUE ELSE FALSE) ELSE FALSE

IsBfeAlreadyDone(I, src, Width) ==
    LET IROp == GetOpHeader(I, src)
    IN IF IROp.Op = "Bfe" THEN (IF Width >= IROp.Width THEN TRUE ELSE FALSE) ELSE FALSE

\* Width == 64 ? ~0ULL : ((1ULL << Width) - 1)
SourceMaskOf(Width) == IF Width = 64 THEN AllOnes64 ELSE LowBits(Width)

\* PropBfe with the elimination of a full-width extract enabled.
PropBfeFullWidth(I, h) ==
    LET n == I.nodes[h]
        Src == Arg(n, 0)
        sourceHeader == GetOpHeader(I, Src)
    IN IF IsBfeAlreadyDone(I, Src, n.Width)
       THEN Redirected(I, h, Src)
       ELSE IF /\ n.lsb = 0
               /\ n.Width >= sourceHeader.Size * 8
               /\ IsLoad(sourceHeader.Op)
       THEN Redirected(I, h, Src)
       ELSE IF n.Size <= 8 /\ IsValueConstant(I, Src)
       THEN LET SourceMask == Shl(SourceMaskOf(n.Width), n.lsb)
            IN Folded(I, h, Shr(ConstantOf(I, Src) \cap SourceMask, n.lsb))
       ELSE IF n.Size = sourceHeader.Size /\ n.Width = n.Size * 8 /\ n.lsb = 0
       THEN Redirected(I, h, Src)
       ELSE IF n.Width = 1 /\ n.lsb = 0
       THEN IF IsSelectOneZero(I, Src) THEN Redirected(I, h, Src) ELSE Unchanged(I)
       ELSE Unchanged(I)

PropBfe(I, h) ==
    LET n == I.nodes[h]
        Src == Arg(n, 0)
        sourceHeader == GetOpHeader(I, Src)
    IN IF IsBfeAlreadyDone(I, Src, n.Width)
       THEN Redirected(I, h, Src)
       ELSE IF /\ n.lsb = 0
               /\ n.Width >= sourceHeader.Size * 8
               /\ IsLoad(sourceHeader.Op)
       THEN Redirected(I, h, Src)
       ELSE IF n.Size <= 8 /\ IsValueConstant(I, Src)
       THEN LET SourceMask == Shl(SourceMaskOf(n.Width), n.lsb)
            IN Folded(I, h, Shr(ConstantOf(I, Src) \cap SourceMask, n.lsb))
       ELSE IF n.Size = sourceHeader.Size /\ n.Width = n.Size * 8 /\ n.lsb = 0
       THEN Unchanged(I)
       ELSE IF n.Width = 1 /\ n.lsb = 0
       THEN IF IsSelectOneZero(I, Src) THEN Redirected(I, h, Src) ELSE Unchanged(I)
       ELSE Unchanged(I)

PropSbfe(I, h) ==
    LET n == I.nodes[h]
        Src == Arg(n, 0)
    IN IF IsValueConstant(I, Src)
       THEN LET SourceMask == Shl(SourceMaskOf(n.Width), n.lsb)
                DestSizeInBits == n.Size * 8
                DestMask == IF DestSizeInBits = 64 THEN AllOnes64 ELSE LowBits(DestSizeInBits)
                v0 == Shr(ConstantOf(I, Src) \cap SourceMask, n.lsb)
                v1 == Shl(v0, 64 - n.Width)
                v2 == Sar(v1, 64 - n.Width)
            IN Folded(I, h, v2 \cap DestMask)
       ELSE Unchanged(I)

PropBfi(I, h) ==
    LET n == I.nodes[h]
        DestIsConstant == IsValueConstant(I, Arg(n, 0))
        SrcIsConstant  == IsValueConstant(I, Arg(n, 1))
        ConstantDest == ValueOr0(I, Arg(n, 0))
        ConstantSrc  == ValueOr0(I, Arg(n, 1))
        SourceMask == SourceMaskOf(n.Width)
    IN IF DestIsConstant /\ SrcIsConstant
       THEN Folded(I, h,
                (ConstantDest \cap NotU64(Shl(SourceMask, n.lsb)))
                    \cup Shl(ConstantSrc \cap SourceMask, n.lsb))
       ELSE IF SrcIsConstant /\ HasConsecutiveBits(ConstantSrc, n.Width)
       THEN LET I1 == EmitConstant(SetWriteCursor(I, h), Shl(SourceMask, n.lsb))
                c  == LastEmitted(I1)
                I2 == Emit(I1, Node(IF 0 \in ConstantSrc THEN "Or" ELSE "Andn",
                                    n.Size, <<Arg(n, 0), c>>))
            IN Redirected(I2, h, LastEmitted(I2))
       ELSE Unchanged(I)

PropMul(I, h) ==
    LET n == I.nodes[h]
    IN IF IsValueConstant(I, Arg(n, 0)) /\ IsValueConstant(I, Arg(n, 1))
       THEN Folded(I, h,
                MulU64(ConstantOf(I, Arg(n, 0)), ConstantOf(I, Arg(n, 1)))
                    \cap getMask(n.Size))
       ELSE IF IsValueConstant(I, Arg(n, 1)) /\ Popcount(ConstantOf(I, Arg(n, 1))) = 1
       THEN IF n.Size = 4 \/ n.Size = 8
            THEN LET amt == CountrZero(ConstantOf(I, Arg(n, 1)))
                     I1  == EmitConstant(SetWriteCursor(I, h), Bits(amt))
                     c   == LastEmitted(I1)
                     I2  == Emit(I1, Node("Lshl", n.Size, <<Arg(n, 0), c>>))
                 IN Redirected(I2, h, LastEmitted(I2))
            ELSE Unchanged(I)
       ELSE Unchanged(I)

PropVmov(I, h) ==
    LET n == I.nodes[h]
        source == Arg(n, 0)
        sourceHeader == GetOpHeader(I, source)
    IN IF n.Size >= sourceHeader.Size /\ IsLoad(sourceHeader.Op)
       THEN Redirected(I, h, source)
       ELSE Unchanged(I)

ConstantPropagation(I, h) ==
    LET op == I.nodes[h].Op
    IN CASE op \in {"Add", "Sub", "AddWithFlags", "SubWithFlags"} -> PropAddSub(I, h)
         [] op = "SubShift" -> PropSubShift(I, h)
         [] op = "And"    -> PropAnd(I, h)
         [] op = "Or"     -> PropOr(I, h)
         [] op = "Orlshl" -> PropOrlshl(I, h)
         [] op = "Orlshr" -> PropOrlshr(I, h)
         [] op = "Xor"    -> PropXor(I, h)
         [] op = "Neg"    -> PropNeg(I, h)
         [] op = "Lshl"   -> PropLshl(I, h)
         [] op = "Lshr"   -> PropLshr(I, h)
         [] op = "Bfe"    -> PropBfe(I, h)
         [] op = "Sbfe"   -> PropSbfe(I, h)
         [] op = "Bfi"    -> PropBfi(I, h)
         [] op = "Mul"    -> PropMul(I, h)
         [] op = "Vmov"   -> PropVmov(I, h)
         [] OTHER         -> Unchanged(I)


(***************************************************************************)
(* C1: ConstProp::HandleConstantPools, one visited code node at a time     *)
(*                                                                         *)
(* ConstPool maps a constant value to [Node, NodeID]; AddressgenConsts     *)
(* maps an address node to its constant address.  Each step yields         *)
(* [ir, ConstPool, AddressgenConsts].                                      *)
(***************************************************************************)
EmptyMap == [x \in {} |-> 0]

MapPut(m, k, v) == [x \in DOMAIN m \cup {k} |-> IF x = k THEN v ELSE m[x]]

CONSTANT_POOL_RANGE_LIMIT == 500

LoadMem_Addr_Index == 0

LoadMem_Offset_Index == 1

StoreMem_Addr_Index == 0

StoreMem_Offset_Index == 2

MemCpy_Direction_Index == 3

MemSet_Direction_Index == 4

\* The range test taken in both directions.
AddressInRangeEitherWay(Addr, Base) ==
    \/ SubU64(Addr, Base) \subseteq LowBits(16)
    \/ SubU64(Base, Addr) \subseteq LowBits(16)

\* (Addr - Const.second) < 65536, in uint64_t.
AddressInRange(Addr, Base) == SubU64(Addr, Base) \subseteq LowBits(16)

\* The live-range test with >= for >.
PoolRangeExceededInclusive(NewNodeID, OldNodeID) ==
    LET d == SubU64(Bits(NewNodeID), Bits(OldNodeID)) \cap LowBits(32)
    IN \/ d \ LowBits(31) # {}
       \/ ToNat(d) >= CONSTANT_POOL_RANGE_LIMIT

\* (NewNodeID.Value - OldNodeID.Value) > CONSTANT_POOL_RANGE_LIMIT, the
\* identifiers being 32-bit unsigned values.
PoolRangeExceeded(NewNodeID, OldNodeID) ==
    LET d == SubU64(Bits(NewNodeID), Bits(OldNodeID)) \cap LowBits(32)
    IN \/ d \ LowBits(31) # {}
       \/ ToNat(d) > CONSTANT_POOL_RANGE_LIMIT

\* AddressgenConsts is ordered by node: the scan takes the first match.
FirstInRange(A, Addr) ==
    LET m == {c \in DOMAIN A : AddressInRange(Addr, A[c])}
    IN IF m = {} THEN InvalidNode ELSE CHOOSE c \in m : \A d \in m : c <= d

PoolMemOp(I, P, A, h) ==
    LET n == I.nodes[h]
        AddrIndex   == IF n.Op = "LoadMem" THEN LoadMem_Addr_Index ELSE StoreMem_Addr_Index
        OffsetIndex == IF n.Op = "LoadMem" THEN LoadMem_Offset_Index ELSE StoreMem_Offset_Index
        Addr  == ConstantOf(I, Arg(n, AddrIndex))
        Const == FirstInRange(A, Addr)
    IN IF IsValueConstant(I, Arg(n, AddrIndex)) /\ Arg(n, OffsetIndex) = InvalidNode
       THEN IF Const # InvalidNode
            THEN LET I1 == ReplaceNodeArgument(I, h, AddrIndex, Const)
                     I2 == EmitConstant(I1, SubU64(Addr, A[Const]))
                     I3 == ReplaceNodeArgument(I2, h, OffsetIndex, LastEmitted(I2))
                 IN [ir |-> SetWriteCursor(I3, h), ConstPool |-> P,
                     AddressgenConsts |-> A]
            ELSE [ir |-> SetWriteCursor(I, h), ConstPool |-> P,
                  AddressgenConsts |-> MapPut(A, Arg(n, AddrIndex), Addr)]
       ELSE [ir |-> SetWriteCursor(I, h), ConstPool |-> P, AddressgenConsts |-> A]

PoolConstant(I, P, A, h) ==
    LET n == I.nodes[h]
        NewNodeID == GetID(I, h)
    IN IF n.Constant \in DOMAIN P
       THEN IF PoolRangeExceeded(NewNodeID, P[n.Constant].NodeID)
            THEN \* continue: the write cursor is left where it was
                 [ir |-> I,
                  ConstPool |-> MapPut(P, n.Constant, [Node |-> h, NodeID |-> NewNodeID]),
                  AddressgenConsts |-> A]
            ELSE [ir |-> SetWriteCursor(
                            ReplaceUsesWithAfter(I, h, P[n.Constant].Node, PosOf(I, h)), h),
                  ConstPool |-> P, AddressgenConsts |-> A]
       ELSE [ir |-> SetWriteCursor(I, h),
             ConstPool |-> MapPut(P, n.Constant, [Node |-> h, NodeID |-> NewNodeID]),
             AddressgenConsts |-> A]

PoolVisit(I, P, A, h) ==
    LET op == I.nodes[h].Op
    IN IF op = "LoadMem" \/ op = "StoreMem" THEN PoolMemOp(I, P, A, h)
       ELSE IF op = "Constant" THEN PoolConstant(I, P, A, h)
       ELSE [ir |-> SetWriteCursor(I, h), ConstPool |-> P, AddressgenConsts |-> A]

(***************************************************************************)
(* C3: ConstProp::ConstantInlining, one visited code node at a time        *)
(*                                                                         *)
(* The state threaded through a step is [ir, gen], gen being               *)
(* InlineConstantGen: value -> inline-constant node.                       *)
(***************************************************************************)
\* CreateInlineConstant without the lookup in InlineConstantGen.
CreateInlineConstantAnew(S, Constant) ==
    LET I1 == EmitInlineConstant(S.ir, Constant)
    IN [ir |-> I1, gen |-> MapPut(S.gen, Constant, LastEmitted(I1)),
        node |-> LastEmitted(I1)]

\* CreateInlineConstant, then ReplaceNodeArgument(h, k, it).
CreateInlineConstant(S, Constant) ==
    IF Constant \in DOMAIN S.gen
    THEN [ir |-> S.ir, gen |-> S.gen, node |-> S.gen[Constant]]
    ELSE LET I1 == EmitInlineConstant(S.ir, Constant)
         IN [ir |-> I1, gen |-> MapPut(S.gen, Constant, LastEmitted(I1)),
             node |-> LastEmitted(I1)]

InlineArgument(S, h, k, Constant) ==
    LET r == CreateInlineConstant(S, Constant)
    IN [ir |-> ReplaceNodeArgument(r.ir, h, k, r.node), gen |-> r.gen]

\* InlineAt with the write cursor set at the node itself.
InlineAtUser(S, h, at, k, Constant) ==
    InlineArgument([ir |-> SetWriteCursor(S.ir, h), gen |-> S.gen], h, k, Constant)

\* SetWriteCursor(GetNode(Args[at])), then inline argument k with Constant.
InlineAt(S, h, at, k, Constant) ==
    InlineArgument([ir |-> SetWriteCursor(S.ir, Arg(S.ir.nodes[h], at)), gen |-> S.gen],
                   h, k, Constant)

\* Argument k, when it is a Constant with value zero, is inlined.
InlineZeroArg(S, h, k) ==
    LET a == Arg(S.ir.nodes[h], k)
    IN IF IsValueConstant(S.ir, a) /\ ConstantOf(S.ir, a) = Zero
       THEN InlineAt(S, h, k, k, Zero)
       ELSE S

InlineShift(S, h) ==
    LET n == S.ir.nodes[h]
        a == Arg(n, 1)
    IN IF IsValueConstant(S.ir, a)
       THEN InlineAt(S, h, 1, 1,
                ConstantOf(S.ir, a) \cap (IF n.Size <= 4 THEN Bits(31) ELSE Bits(63)))
       ELSE S

\* InlineAddSub without the test on the operation's Size.
InlineAddSubAnySize(S, h) ==
    LET n == S.ir.nodes[h]
        a == Arg(n, 1)
    IN IF IsValueConstant(S.ir, a)
       THEN IF IsImmAddSub(ConstantOf(S.ir, a))
            THEN InlineAt(S, h, 1, 1, ConstantOf(S.ir, a))
            ELSE S
       ELSE IF n.Op = "SubNZCV" \/ n.Op = "SubWithFlags" \/ n.Op = "Sub"
       THEN InlineZeroArg(S, h, 0)
       ELSE S

InlineAddSub(S, h) ==
    LET n == S.ir.nodes[h]
        a == Arg(n, 1)
    IN IF IsValueConstant(S.ir, a)
       THEN IF IsImmAddSub(ConstantOf(S.ir, a)) /\ n.Size >= 4
            THEN InlineAt(S, h, 1, 1, ConstantOf(S.ir, a))
            ELSE S
       ELSE IF n.Op = "SubNZCV" \/ n.Op = "SubWithFlags" \/ n.Op = "Sub"
       THEN InlineZeroArg(S, h, 0)
       ELSE S

InlineCondAddSub(S, h) ==
    LET n  == S.ir.nodes[h]
        a  == Arg(n, 1)
        S1 == IF IsValueConstant(S.ir, a) /\ IsImmAddSub(ConstantOf(S.ir, a))
              THEN InlineAt(S, h, 1, 1, ConstantOf(S.ir, a))
              ELSE S
    IN InlineZeroArg(S1, h, 0)

\* Argument k, when it is a Constant that IsImmAddSub accepts, is inlined.
InlineAddSubArg(S, h, k) ==
    LET a == Arg(S.ir.nodes[h], k)
    IN IF IsValueConstant(S.ir, a) /\ IsImmAddSub(ConstantOf(S.ir, a))
       THEN InlineAt(S, h, k, k, ConstantOf(S.ir, a))
       ELSE S

\* Argument 1, when it is a Constant that IsImmLogical accepts, is inlined.
InlineLogical(S, h) ==
    LET n == S.ir.nodes[h]
        a == Arg(n, 1)
    IN IF IsValueConstant(S.ir, a) /\ IsImmLogical(ConstantOf(S.ir, a), n.Size * 8)
       THEN InlineAt(S, h, 1, 1, ConstantOf(S.ir, a))
       ELSE S

SelectAllOnes(Size) == IF Size = 8 THEN AllOnes64 ELSE LowBits(32)

InlineSelect(S, h) ==
    LET S1 == InlineAddSubArg(S, h, 1)
        n  == S1.ir.nodes[h]
        a2 == Arg(n, 2)
        a3 == Arg(n, 3)
    IN IF /\ IsValueConstant(S1.ir, a2)
          /\ IsValueConstant(S1.ir, a3)
          /\ (ConstantOf(S1.ir, a2) = Bits(1) \/ ConstantOf(S1.ir, a2) = SelectAllOnes(n.Size))
          /\ ConstantOf(S1.ir, a3) = Zero
       THEN LET S2 == InlineAt(S1, h, 2, 2, ConstantOf(S1.ir, a2))
            IN InlineArgument(S2, h, 3, ConstantOf(S1.ir, a3))
       ELSE S1

InlineNZCVSelect(S, h) ==
    LET n  == S.ir.nodes[h]
        a0 == Arg(n, 0)
        a1 == Arg(n, 1)
    IN IF IsValueConstant(S.ir, a1) /\ ConstantOf(S.ir, a1) = Zero
       THEN LET S1 == InlineAt(S, h, 1, 1, Zero)
            IN IF /\ IsValueConstant(S1.ir, a0)
                  /\ (ConstantOf(S1.ir, a0) = Bits(1)
                        \/ ConstantOf(S1.ir, a0) = SelectAllOnes(n.Size))
               THEN InlineAt(S1, h, 0, 0, ConstantOf(S1.ir, a0))
               ELSE S1
       ELSE S

InlineExitFunction(S, h) ==
    LET n      == S.ir.nodes[h]
        NewRIP == Arg(n, 0)
    IN IF IsValueConstant(S.ir, NewRIP)
       THEN InlineAt(S, h, 0, 0, ConstantOf(S.ir, NewRIP))
       ELSE IF GetOpHeader(S.ir, NewRIP).Op = "EntrypointOffset"
       THEN LET EO == GetOpHeader(S.ir, NewRIP)
                I1 == EmitInlineEntrypointOffset(SetWriteCursor(S.ir, NewRIP),
                                                 EO.Size, EO.Constant)
            IN [ir |-> ReplaceNodeArgument(I1, h, 0, LastEmitted(I1)), gen |-> S.gen]
       ELSE S

\* The offset operand k of a memory op, under the given immediate test.
InlineOffset(S, h, k, ok) ==
    LET n == S.ir.nodes[h]
        a == Arg(n, k)
    IN IF n.OffsetType = "SXTX" /\ IsValueConstant(S.ir, a)
       THEN IF ok THEN InlineAt(S, h, k, k, ConstantOf(S.ir, a)) ELSE S
       ELSE S

OffsetImmMemory(S, h, k) ==
    LET n == S.ir.nodes[h]
    IN IsValueConstant(S.ir, Arg(n, k)) /\ IsImmMemory(ConstantOf(S.ir, Arg(n, k)), n.Size)

OffsetTSOImm9(S, h, k) ==
    LET n == S.ir.nodes[h]
    IN IsValueConstant(S.ir, Arg(n, k)) /\ IsTSOImm9(ConstantOf(S.ir, Arg(n, k)))

\* The direction operand of MemCpy / MemSet: any constant.
InlineDirection(S, h, k) ==
    LET a == Arg(S.ir.nodes[h], k)
    IN IF IsValueConstant(S.ir, a) THEN InlineAt(S, h, k, k, ConstantOf(S.ir, a)) ELSE S

InlineVisit(S, tso, h) ==
    LET op == S.ir.nodes[h].Op
    IN CASE op \in {"Lshr", "Ashr", "Ror", "Lshl"} -> InlineShift(S, h)
         [] op \in {"Add", "Sub", "AddNZCV", "SubNZCV", "AddWithFlags", "SubWithFlags"} ->
                InlineAddSub(S, h)
         [] op \in {"Adc", "AdcWithFlags"} -> InlineZeroArg(S, h, 0)
         [] op = "RmifNZCV" -> InlineZeroArg(S, h, 0)
         [] op \in {"CondAddNZCV", "CondSubNZCV"} -> InlineCondAddSub(S, h)
         [] op = "TestNZ" -> InlineLogical(S, h)
         [] op = "Select" -> InlineSelect(S, h)
         [] op = "NZCVSelect" -> InlineNZCVSelect(S, h)
         [] op = "CondJump" -> InlineAddSubArg(S, h, 1)
         [] op = "ExitFunction" -> InlineExitFunction(S, h)
         [] op \in {"Or", "Xor", "And", "AndWithFlags", "Andn"} -> InlineLogical(S, h)
         [] op = "LoadMem" ->
                InlineOffset(S, h, LoadMem_Offset_Index, OffsetImmMemory(S, h, LoadMem_Offset_Index))
         [] op = "StoreMem" ->
                InlineOffset(S, h, StoreMem_Offset_Index, OffsetImmMemory(S, h, StoreMem_Offset_Index))
         [] op = "LoadMemTSO" ->
                IF tso
                THEN InlineOffset(S, h, LoadMem_Offset_Index, OffsetTSOImm9(S, h, LoadMem_Offset_Index))
                ELSE S
         [] op = "StoreMemTSO" ->
                IF tso
                THEN InlineOffset(S, h, StoreMem_Offset_Index, OffsetTSOImm9(S, h, StoreMem_Offset_Index))
                ELSE S
         [] op = "MemCpy" -> InlineDirection(S, h, MemCpy_Direction_Index)
         [] op = "MemSet" -> InlineDirection(S, h, MemSet_Direction_Index)
         [] op = "Prefetch" ->
                InlineOffset(S, h, LoadMem_Offset_Index, OffsetImmMemory(S, h, LoadMem_Offset_Index))
         [] OTHER -> S


(***************************************************************************)
(* The pass object and ConstProp::Run                                      *)
(***************************************************************************)
VARIABLES
    ir,                 \* the IR the emitter holds: [nodes, blocks, cursor]
    ConstPool,          \* value -> [Node, NodeID]
    AddressgenConsts,   \* node -> constant address
    InlineConstantGen,  \* value -> inline-constant node
    InlineConstants,    \* construction flag: run C3
    SupportsTSOImm9,    \* construction flag
    pc,                 \* "Idle", or the sub-pass Run is in: "C1", "C2", "C3"
    blk,                \* C1: the block being walked
    cur,                \* the code node the running loop is at; 0 past the end
    finished,           \* the sub-passes the current Run has completed
    runs,               \* completed invocations of Run
    rw                  \* the rewrite the last step of C2 made, if any

vars == <<ir, ConstPool, AddressgenConsts, InlineConstantGen, InlineConstants,
          SupportsTSOImm9, pc, blk, cur, finished, runs, rw>>

\* Number of times Run is invoked on the IR.
MaxRuns == 2

\* The iterator's successor: the node linked after h when the body is done.
NextInBlock(I, b, h) ==
    LET i == IndexOf(I.blocks[b], h)
    IN IF i = Len(I.blocks[b]) THEN 0 ELSE I.blocks[b][i + 1]

NextInCode(I, h) ==
    LET code == GetAllCode(I)
        i    == IndexOf(code, h)
    IN IF i = Len(code) THEN 0 ELSE code[i + 1]

FirstCode(I) == Head(GetAllCode(I))

\* Run calling ConstantInlining whatever InlineConstants is.
PhaseAfterIgnoringFlag(phase, inline) ==
    CASE phase = "C1" -> "C2"
      [] phase = "C2" -> "C3"
      [] phase = "C3" -> "Idle"

\* The order in which Run calls the sub-passes: HandleConstantPools, the
\* ConstantPropagation loop, then ConstantInlining if InlineConstants.
PhaseAfter(phase, inline) ==
    CASE phase = "C1" -> "C2"
      [] phase = "C2" -> IF inline THEN "C3" ELSE "Idle"
      [] phase = "C3" -> "Idle"

\* Run is invoked on the IR view.
RunBegin ==
    /\ pc = "Idle"
    /\ runs < MaxRuns
    /\ pc' = "C1"
    /\ blk' = 1
    /\ cur' = Head(ir.blocks[1])
    /\ finished' = {}
    /\ rw' = NoRewrite
    /\ UNCHANGED <<ir, ConstPool, AddressgenConsts, InlineConstantGen,
                   InlineConstants, SupportsTSOImm9, runs>>

\* HandleConstantPools: the body of the inner loop for one code node.
PoolStep ==
    /\ pc = "C1"
    /\ cur # 0
    /\ LET r == PoolVisit(ir, ConstPool, AddressgenConsts, cur)
       IN /\ ir' = r.ir
          /\ ConstPool' = r.ConstPool
          /\ AddressgenConsts' = r.AddressgenConsts
          /\ cur' = NextInBlock(r.ir, blk, cur)
    /\ UNCHANGED <<InlineConstantGen, InlineConstants, SupportsTSOImm9, pc, blk,
                   finished, runs, rw>>

\* The end of a block leaving a map as it is.
KeptAtBlockEnd(m) == m

\* The maps as the end of a block leaves them.
ClearedAtBlockEnd(m) == EmptyMap

\* HandleConstantPools: the end of a block clears both maps; after the last
\* block Run goes on to the ConstantPropagation loop.
PoolEndBlock ==
    /\ pc = "C1"
    /\ cur = 0
    /\ AddressgenConsts' = ClearedAtBlockEnd(AddressgenConsts)
    /\ ConstPool' = ClearedAtBlockEnd(ConstPool)
    /\ blk' = blk + 1
    /\ IF blk < Len(ir.blocks)
       THEN /\ cur' = Head(ir.blocks[blk + 1])
            /\ UNCHANGED <<pc, finished>>
       ELSE /\ pc' = PhaseAfter("C1", InlineConstants)
            /\ cur' = FirstCode(ir)
            /\ finished' = finished \cup {"C1"}
    /\ UNCHANGED <<ir, InlineConstantGen, InlineConstants, SupportsTSOImm9, runs, rw>>

\* Run: ConstantPropagation on one code node of GetAllCode.
PropStep ==
    /\ pc = "C2"
    /\ cur # 0
    /\ LET r == ConstantPropagation(ir, cur)
       IN /\ ir' = r.ir
          /\ rw' = r.rw
          /\ cur' = NextInCode(r.ir, cur)
    /\ UNCHANGED <<ConstPool, AddressgenConsts, InlineConstantGen, InlineConstants,
                   SupportsTSOImm9, pc, blk, finished, runs>>

\* Run: the ConstantPropagation loop is over; ConstantInlining, when it
\* runs, starts by clearing InlineConstantGen.
PropEnd ==
    /\ pc = "C2"
    /\ cur = 0
    /\ pc' = PhaseAfter("C2", InlineConstants)
    /\ finished' = finished \cup {"C2"}
    /\ rw' = NoRewrite
    /\ IF pc' = "C3"
       THEN /\ InlineConstantGen' = EmptyMap
            /\ cur' = FirstCode(ir)
            /\ runs' = runs
       ELSE /\ UNCHANGED <<InlineConstantGen, cur>>
            /\ runs' = runs + 1
    /\ UNCHANGED <<ir, ConstPool, AddressgenConsts, InlineConstants,
                   SupportsTSOImm9, blk>>

\* ConstantInlining: the body of the loop for one code node.
InlineStep ==
    /\ pc = "C3"
    /\ cur # 0
    /\ LET r == InlineVisit([ir |-> ir, gen |-> InlineConstantGen], SupportsTSOImm9, cur)
       IN /\ ir' = r.ir
          /\ InlineConstantGen' = r.gen
          /\ cur' = NextInCode(r.ir, cur)
    /\ UNCHANGED <<ConstPool, AddressgenConsts, InlineConstants, SupportsTSOImm9,
                   pc, blk, finished, runs, rw>>

\* ConstantInlining and Run return.
InlineEnd ==
    /\ pc = "C3"
    /\ cur = 0
    /\ pc' = PhaseAfter("C3", InlineConstants)
    /\ finished' = finished \cup {"C3"}
    /\ runs' = runs + 1
    /\ UNCHANGED <<ir, ConstPool, AddressgenConsts, InlineConstantGen,
                   InlineConstants, SupportsTSOImm9, blk, cur, rw>>

HandleConstantPools == PoolStep \/ PoolEndBlock

ConstantInlining == InlineStep \/ InlineEnd

Next ==
    \/ RunBegin
    \/ PoolStep
    \/ PoolEndBlock
    \/ PropStep
    \/ PropEnd
    \/ InlineStep
    \/ InlineEnd


(***************************************************************************)
(* Input IRs                                                               *)
(*                                                                         *)
(* Run is handed the IR of one function.  The inputs are bounded families  *)
(* of well-formed IRs (every operand is defined earlier in its own block,  *)
(* identifiers increase in program order).                                 *)
(***************************************************************************)
\* blocks of the given lengths over handles 1, 2, ...
RECURSIVE BlocksOf(_, _)
BlocksOf(lens, first) ==
    IF lens = <<>> THEN <<>>
    ELSE <<[i \in 1..Head(lens) |-> first + i - 1]>>
            \o BlocksOf(Tail(lens), first + Head(lens))

\* The IR with the given nodes, in blocks of the given lengths, node h
\* carrying identifier ids[h].
MkIR(ns, lens, ids) ==
    [nodes  |-> [h \in DOMAIN ns |-> [ns[h] EXCEPT !.ID = ids[h]]],
     blocks |-> BlocksOf(lens, 1),
     cursor |-> <<1, 0>>]

DenseIDs(ns) == [h \in DOMAIN ns |-> h]

Const(v) == [Node("Constant", 8, <<>>) EXCEPT !.Constant = v]

\* 0xFFFFFFFFFFFFF000
MinusPage == NegU64(Bits(4096))

\* 0x100000003
Wide == {0, 1, 32}

\* 0xFFFFFFFFFFFFFF00, i.e. -256
Minus256 == NegU64(Bits(256))

Sizes == {1, 2, 4, 8}

\* Unit programs: two constants, an opaque value, a source node, the node
\* under study and a user of its result.
\*   1: Constant a   2: Constant b   3: LoadContext   4: src   5: subject
\*   6: StoreContext(5, 1, 2)
Unit(a, b, src, subject) ==
    LET ns == <<Const(a), Const(b), Node("LoadContext", 8, <<>>), src, subject,
                Node("StoreContext", 8, <<5, 1, 2>>)>>
    IN MkIR(ns, <<6>>, DenseIDs(ns))

SelectSrc(size) == Node("Select", size, <<3, 3, 1, 2>>)

\* <<operands of the subject, <<a, b>>>>
PairsAll ==
    {<<Bits(7), Bits(5)>>, <<Bits(1), Zero>>, <<Zero, Bits(8)>>, <<Wide, Bits(1)>>,
     <<AllOnes64, MinusPage>>, <<Bits(5), Bits(4097)>>,
     <<LowBits(32), Zero>>, <<AllOnes64, Zero>>}

PairsRight ==
    {<<Bits(7), Bits(5)>>, <<Bits(1), Zero>>, <<Zero, Bits(8)>>, <<Wide, Bits(1)>>,
     <<AllOnes64, MinusPage>>, <<Bits(5), Bits(4097)>>, <<Bits(7), {32}>>}

PairsLeft ==
    {<<Bits(7), Bits(5)>>, <<Bits(1), Zero>>, <<Zero, Bits(8)>>, <<AllOnes64, MinusPage>>}

BinaryCases ==
    ({<<1, 2>>} \X PairsAll)
        \cup ({<<3, 2>>} \X PairsRight)
        \cup ({<<1, 3>>} \X PairsLeft)
        \cup ({<<3, 3>>} \X {<<Bits(7), Bits(5)>>})
        \cup ({<<4, 2>>} \X {<<Bits(7), Bits(5)>>, <<Bits(1), Zero>>})
        \cup ({<<4, 1>>} \X {<<Bits(1), Zero>>})

BinaryOps ==
    {"Add", "Sub", "AddWithFlags", "SubWithFlags", "SubShift", "And", "Or",
     "Orlshl", "Orlshr", "Xor", "Lshl", "Lshr", "Bfi", "Mul",
     "Ashr", "Ror", "AddNZCV", "SubNZCV", "Adc", "AdcWithFlags", "RmifNZCV",
     "CondAddNZCV", "CondSubNZCV", "TestNZ", "CondJump", "AndWithFlags", "Andn",
     "NZCVSelect"}

\* The opcode-specific fields the subject is tried with.
Fields(lsb, width, shift, shiftType) ==
    [lsb |-> lsb, Width |-> width, Shift |-> shift, ShiftType |-> shiftType]

FieldsOf(op) ==
    CASE op = "SubShift" -> {Fields(0, 0, 3, "LSL"), Fields(0, 0, 3, "LSR")}
      [] op \in {"Orlshl", "Orlshr"} -> {Fields(0, 0, 4, "LSL")}
      [] op = "Bfi" -> {Fields(4, 4, 0, "LSL"), Fields(0, 64, 0, "LSL"), Fields(8, 1, 0, "LSL")}
      [] OTHER -> {Fields(0, 0, 0, "LSL")}

WithFields(n, f) ==
    [n EXCEPT !.lsb = f.lsb, !.Width = f.Width, !.Shift = f.Shift, !.ShiftType = f.ShiftType]

BinaryPrograms ==
    UNION {{Unit(c[2][1], c[2][2], SelectSrc(4), WithFields(Node(op, size, c[1]), f)) :
                size \in Sizes, c \in BinaryCases, f \in FieldsOf(op)} :
           op \in BinaryOps}

\* Bit fields that lie within the destination: lsb + Width <= Size * 8.
BitFields(size) ==
    {f \in {0, 4} \X {1, 8, 16, 32, 64} : f[1] + f[2] <= size * 8}

WithBitField(n, f) == [n EXCEPT !.lsb = f[1], !.Width = f[2]]

PairsUnary == {<<Bits(7), Bits(5)>>, <<Bits(1), Zero>>, <<AllOnes64, MinusPage>>}

NegPrograms ==
    {Unit(p[1], p[2], SelectSrc(4), Node("Neg", size, <<src>>)) :
        p \in PairsUnary, size \in Sizes, src \in {1, 3}}

SbfePrograms ==
    UNION {{Unit(p[1], p[2], SelectSrc(4), WithBitField(Node("Sbfe", size, <<src>>), f)) :
                p \in PairsUnary, src \in {1, 3}, f \in BitFields(size)} :
           size \in Sizes}

\* The sources a Bfe or Vmov is tried on.
LoadSources ==
    {Node(op, size, <<3, InvalidNode>>) :
        op \in {"LoadMem", "LoadMemTSO"}, size \in {1, 4, 8, 16}}
        \cup {Node("LoadContext", size, <<>>) : size \in {1, 4, 8, 16}}

BfeSources ==
    {WithBitField(Node("Bfe", 8, <<3>>), f) : f \in {<<0, 8>>, <<4, 8>>, <<0, 32>>}}

BfePrograms ==
    UNION {{Unit(Bits(7), Bits(5), src, WithBitField(Node("Bfe", size, <<4>>), f)) :
                src \in LoadSources \cup BfeSources, f \in BitFields(size)}
             \cup {Unit(p[1], p[2], SelectSrc(4), WithBitField(Node("Bfe", size, <<a>>), f)) :
                p \in PairsUnary, a \in {1, 3, 4}, f \in BitFields(size)} :
           size \in Sizes}

VmovPrograms ==
    {Unit(Bits(7), Bits(5), src, Node("Vmov", size, <<4>>)) :
        src \in LoadSources \cup {SelectSrc(4)}, size \in {8, 16}}

ExitPrograms ==
    {Unit(p[1], p[2], [Node("EntrypointOffset", 8, <<>>) EXCEPT !.Constant = Bits(16)],
          Node("ExitFunction", 8, <<a>>)) :
        p \in PairsUnary, a \in {1, 3, 4}}

SelectPrograms ==
    {Unit(p[1], p[2], SelectSrc(4), Node("Select", size, <<3, a, 1, 2>>)) :
        p \in PairsAll, size \in Sizes, a \in {1, 2, 3}}

Offsets ==
    {Zero, Bits(5), Bits(8), Bits(4097), Bits(32760), MinusPage, Minus256}

WithOffsetType(n, t) == [n EXCEPT !.OffsetType = t]

\* Memory operations with a non-constant address and a constant offset.
MemPrograms(ops, args) ==
    {Unit(Bits(7), b, SelectSrc(4), WithOffsetType(Node(op, size, args), t)) :
        op \in ops, size \in {1, 2, 4, 8, 16}, b \in Offsets, t \in {"SXTX", "UXTW"}}

PlainMemPrograms ==
    MemPrograms({"LoadMem", "Prefetch"}, <<3, 2>>)
        \cup MemPrograms({"StoreMem"}, <<3, 3, 2>>)
        \cup {Unit(Bits(7), b, SelectSrc(4), Node("MemCpy", 1, <<3, 3, 3, 2>>)) :
                b \in {Bits(1), AllOnes64}}
        \cup {Unit(Bits(7), b, SelectSrc(4), Node("MemSet", 1, <<3, 3, 3, 3, 2>>)) :
                b \in {Bits(1), AllOnes64}}

TSOMemPrograms ==
    MemPrograms({"LoadMemTSO"}, <<3, 2>>) \cup MemPrograms({"StoreMemTSO"}, <<3, 3, 2>>)

\* Pool programs: a block of MaxPoolConsts constants over two values, at
\* identifiers 1, 1 + g1, 1 + g1 + g2, ..., and their user; then a second
\* block with one more constant and its user.
MaxPoolConsts == 3

Gaps == {1, 500, 501}

RECURSIVE SumTo(_, _)
SumTo(g, k) == IF k = 0 THEN 0 ELSE g[k] + SumTo(g, k - 1)

PoolPrograms ==
    {LET K  == MaxPoolConsts
         ns == [h \in 1..(K + 3) |->
                  IF h <= K THEN Const(vs[h])
                  ELSE IF h = K + 1 THEN Node("StoreContext", 8, [i \in 1..K |-> i])
                  ELSE IF h = K + 2 THEN Const(Bits(5))
                  ELSE Node("StoreContext", 8, <<K + 2>>)]
         ids == [h \in 1..(K + 3) |->
                  IF h <= K THEN 1 + SumTo(g, h - 1)
                  ELSE 1 + SumTo(g, K - 1) + (h - K)]
     IN MkIR(ns, <<K + 1, 2>>, ids) :
        vs \in [1..MaxPoolConsts -> {Bits(5), Bits(7)}],
        g  \in [1..(MaxPoolConsts - 1) -> Gaps]}

\* Coalescing programs: two constant addresses, then MaxMemOps memory
\* operations that use them in turn, each a LoadMem or StoreMem with an
\* invalid offset ("L", "S") or a LoadMem with a valid one ("V"), then a
\* constant with the distance of the two addresses and its user; then a
\* second block with the first address again and a LoadMem of it.
MaxMemOps == 3

AddressPairs ==
    {<<Bits(4096), Bits(4160)>>, <<Bits(4160), Bits(4096)>>, <<Bits(4096), Bits(69632)>>,
     <<Bits(4160), Bits(69632)>>, <<Bits(4096), Bits(8192)>>, <<Bits(32), AllOnes64>>,
     <<AllOnes64, Bits(32)>>}

MemOp(kind, addr) ==
    CASE kind = "L" -> Node("LoadMem", 8, <<addr, InvalidNode>>)
      [] kind = "S" -> Node("StoreMem", 8, <<addr, addr, InvalidNode>>)
      [] kind = "V" -> Node("LoadMem", 8, <<addr, addr>>)

CoalescePrograms ==
    {LET K  == MaxMemOps
         ns == [h \in 1..(K + 6) |->
                  IF h = 1 THEN Const(p[1])
                  ELSE IF h = 2 THEN Const(p[2])
                  ELSE IF h <= K + 2 THEN MemOp(ks[h - 2], 2 - (h % 2))
                  ELSE IF h = K + 3 THEN Const(SubU64(p[2], p[1]))
                  ELSE IF h = K + 4 THEN Node("StoreContext", 8, <<K + 3>>)
                  ELSE IF h = K + 5 THEN Const(p[1])
                  ELSE MemOp("L", K + 5)]
     IN MkIR(ns, <<K + 4, 2>>, DenseIDs(ns)) :
        p \in AddressPairs, ks \in [1..MaxMemOps -> {"L", "S", "V"}]}

\* Two-block programs: each block holds a constant, an opaque value, an
\* operation on the two and a user of its result.
TwoBlockPrograms ==
    {LET ns == <<Const(Bits(5)), Node("LoadContext", 8, <<>>), Node(op, size, <<2, 1>>),
                 Node("StoreContext", 8, <<3>>),
                 Const(v), Node("LoadContext", 8, <<>>), Node(op, size, <<6, 5>>),
                 Node("StoreContext", 8, <<7>>)>>
     IN MkIR(ns, <<4, 4>>, DenseIDs(ns)) :
        op \in {"Add", "And", "Lshl", "Mul"}, size \in {4, 8}, v \in {Bits(5), Bits(8)}}

\* An input: the function's IR and the pass's construction flags.
Case(I, inline, tso) == [ir |-> I, inline |-> inline, tso |-> tso]

Cases ==
    {Case(I, inline, TRUE) :
        I \in BinaryPrograms \cup NegPrograms \cup SbfePrograms \cup BfePrograms
                \cup VmovPrograms \cup ExitPrograms \cup SelectPrograms
                \cup PlainMemPrograms,
        inline \in BOOLEAN}
      \cup {Case(I, TRUE, tso) : I \in TSOMemPrograms, tso \in BOOLEAN}
      \cup {Case(I, TRUE, TRUE) : I \in PoolPrograms}
      \cup {Case(I, inline, TRUE) :
                I \in CoalescePrograms \cup TwoBlockPrograms, inline \in BOOLEAN}

Init ==
    /\ \E c \in Cases :
          /\ ir = c.ir
          /\ InlineConstants = c.inline
          /\ SupportsTSOImm9 = c.tso
    /\ ConstPool = EmptyMap
    /\ AddressgenConsts = EmptyMap
    /\ InlineConstantGen = EmptyMap
    /\ pc = "Idle"
    /\ blk = 0
    /\ cur = 0
    /\ finished = {}
    /\ runs = 0
    /\ rw = NoRewrite

Spec == Init /\ [][Next]_vars


(***************************************************************************)
(* The value an IR node computes                                           *)
(*                                                                         *)
(* The guest machine model: an operation computes on the 64-bit values of  *)
(* its operands and its result is truncated to Size bytes.  A load yields  *)
(* the loaded value zero-extended from Size bytes; a Select yields its     *)
(* third or fourth operand.  A valuation e fixes what the loads return     *)
(* and which way the selects go.                                           *)
(***************************************************************************)
Valuations ==
    [load : {Zero, AllOnes64, {0, 2, 4, 5, 6, 7, 8}}, cond : BOOLEAN]

\* The low Size bytes of a 64-bit value.
Truncate(v, Size) == v \cap LowBits(8 * Size)

RECURSIVE Eval(_, _, _)
Eval(I, h, e) ==
    LET n  == I.nodes[h]
        op == n.Op
        a  == Eval(I, Arg(n, 0), e)
        b  == Eval(I, Arg(n, 1), e)
        amt == ToNat(b \cap ShiftMask(n.Size))
        field == SourceMaskOf(n.Width)
        v  == CASE op = "Constant" -> n.Constant
                [] IsLoad(op) -> e.load
                [] op = "Select" ->
                      IF e.cond THEN Eval(I, Arg(n, 2), e) ELSE Eval(I, Arg(n, 3), e)
                [] op \in {"Add", "AddWithFlags"} -> AddU64(a, b)
                [] op \in {"Sub", "SubWithFlags"} -> SubU64(a, b)
                [] op = "SubShift" -> SubU64(a, Shl(b, n.Shift))
                [] op = "And" -> a \cap b
                [] op = "Andn" -> a \ b
                [] op = "Or" -> a \cup b
                [] op = "Orlshl" -> a \cup Shl(b, n.Shift)
                [] op = "Orlshr" -> a \cup Shr(b, n.Shift)
                [] op = "Xor" -> XorU64(a, b)
                [] op = "Neg" -> NegU64(a)
                [] op = "Lshl" -> Shl(a, amt)
                [] op = "Lshr" -> Shr(a, amt)
                [] op = "Bfe" -> Shr(a, n.lsb) \cap field
                [] op = "Sbfe" ->
                      Sar(Shl(Shr(a, n.lsb) \cap field, 64 - n.Width), 64 - n.Width)
                [] op = "Bfi" ->
                      (a \ Shl(field, n.lsb)) \cup Shl(b \cap field, n.lsb)
                [] op = "Mul" -> MulU64(a, b)
                [] op = "Vmov" -> a
                [] OTHER -> Zero
    IN Truncate(v, n.Size)


(***************************************************************************)
(* Properties                                                              *)
(***************************************************************************)
\* C1: every rewrite of the constant folder preserves the value of the
\* rewritten node modulo its result width, for every valuation of the
\* non-constant operands: after a step of ConstantPropagation on a node,
\* the node (when rewritten in place) or the node its uses were redirected
\* to computes what the node computed before the step.
C1_RewritePreservesValue ==
    [][(pc = "C2" /\ cur # 0 /\ rw'.kind # "none") =>
          \A e \in Valuations :
              LET t == IF rw'.kind = "redirect" THEN rw'.target ELSE cur
              IN Truncate(Eval(ir, cur, e), ir.nodes[cur].Size)
                   = Truncate(Eval(ir', t, e), ir.nodes[cur].Size)]_vars

\* C2: width-safety: the value a fold passes to ReplaceWithConstant has no
\* bit set at or above bit Size * 8 of the folded node.
C2_FoldIsMasked ==
    rw.kind = "constant" => rw.value \subseteq LowBits(8 * rw.size)

\* The node C2 is about to visit is one of the four arithmetic opcodes and
\* both its operands are Constant nodes.
ArithmeticOfConstants ==
    /\ pc = "C2"
    /\ cur # 0
    /\ ir.nodes[cur].Op \in {"Add", "Sub", "AddWithFlags", "SubWithFlags"}
    /\ IsValueConstant(ir, Arg(ir.nodes[cur], 0))
    /\ IsValueConstant(ir, Arg(ir.nodes[cur], 1))

\* (c1 + c2) & widthMask for the add variants, (c1 - c2) & widthMask for
\* the sub variants, of the node C2 is about to visit.
ArithmeticResult ==
    LET n  == ir.nodes[cur]
        c1 == ConstantOf(ir, Arg(n, 0))
        c2 == ConstantOf(ir, Arg(n, 1))
    IN Truncate(IF n.Op \in {"Add", "AddWithFlags"} THEN AddU64(c1, c2)
                ELSE SubU64(c1, c2), n.Size)

\* The step replaced the visited node in place by Constant(v) and did
\* nothing else.
FoldedInPlaceTo(v) ==
    /\ rw'.kind = "constant"
    /\ rw'.value = v
    /\ ir'.nodes = [ir.nodes EXCEPT ![cur] =
                       [@ EXCEPT !.Op = "Constant", !.Args = <<>>, !.Constant = v]]
    /\ ir'.blocks = ir.blocks

\* C3 (as stated): each of Add, Sub, AddWithFlags and SubWithFlags with two
\* Constant operands is replaced in place by the Constant (c1 +- c2) &
\* widthMask, and no other rewrite is applied to it.
C3_AllFourFold ==
    [][ArithmeticOfConstants => FoldedInPlaceTo(ArithmeticResult)]_vars

\* C3 (amended): Add and Sub with two Constant operands are replaced in
\* place by the Constant (c1 +- c2) & widthMask and nothing else changes;
\* AddWithFlags and SubWithFlags with two Constant operands are never
\* folded: they are flipped to the opposite opcode, with a new
\* Constant(-c2) as right operand, exactly when c2 is no add/sub immediate
\* and -c2 is one, and are left alone otherwise.
C3_AddSubFold ==
    [][ArithmeticOfConstants =>
          LET n  == ir.nodes[cur]
              c2 == ConstantOf(ir, Arg(n, 1))
              flips == ~AssemblerIsImmAddSub(c2) /\ AssemblerIsImmAddSub(NegU64(c2))
          IN IF n.Op \in {"Add", "Sub"}
             THEN FoldedInPlaceTo(ArithmeticResult)
             ELSE IF flips
             THEN /\ rw'.kind = "flip"
                  /\ ir'.nodes[cur].Op =
                        (IF n.Op = "AddWithFlags" THEN "SubWithFlags" ELSE "AddWithFlags")
                  /\ Len(ir'.nodes) = Len(ir.nodes) + 1
                  /\ ir'.nodes[cur].Args = <<Arg(n, 0), Len(ir'.nodes)>>
                  /\ ir'.nodes[Len(ir'.nodes)].Op = "Constant"
                  /\ ir'.nodes[Len(ir'.nodes)].Constant = NegU64(c2)
             ELSE /\ rw'.kind = "none"
                  /\ ir'.nodes = ir.nodes
                  /\ ir'.blocks = ir.blocks]_vars

\* C3 witness: Sub of Constant 0 and Constant 8 at Size 4 has been folded
\* to the wrapped, masked difference 0xFFFFFFF8.
C3_Witness ==
    /\ rw.kind = "constant"
    /\ rw.op = "Sub"
    /\ rw.size = 4
    /\ rw.value = LowBits(32) \ LowBits(3)
    /\ ir.nodes[rw.node].Op = "Constant"

\* C4: idempotence: once a first Run has returned, a further Run changes
\* nothing of the IR: no opcode, operand edge or field of a node is
\* modified, no node is created and the program order stays as it is.
C4_SecondRunIsNoOp ==
    [][runs >= 1 => (ir'.nodes = ir.nodes /\ ir'.blocks = ir.blocks)]_vars

\* The inlining table.  Operand k of node h of I is eligible when it is
\* listed for the node's opcode and is a Constant satisfying the row's
\* predicate.  The table is read in two ways.  As stated: argument 0 of the
\* Sub family is eligible whenever it is Constant 0, and allOnes is
\* 0xFFFFFFFF for Size 4 and 64 ones otherwise.  Otherwise: argument 0 of
\* the Sub family is eligible only when, besides, argument 1 is no Constant,
\* and allOnes is 64 ones for Size 8 and 0xFFFFFFFF otherwise.
TableAllOnes(Size, stated) ==
    IF stated THEN (IF Size = 4 THEN LowBits(32) ELSE AllOnes64)
    ELSE (IF Size = 8 THEN AllOnes64 ELSE LowBits(32))

Eligible(I, tso, h, k, stated) ==
    LET n   == I.nodes[h]
        op  == n.Op
        IsC(j) == Arg(n, j) # InvalidNode /\ I.nodes[Arg(n, j)].Op = "Constant"
        c(j)   == I.nodes[Arg(n, j)].Constant
        ones   == TableAllOnes(n.Size, stated)
        sxtx   == n.OffsetType = "SXTX"
    IN CASE op \in {"Lshr", "Ashr", "Ror", "Lshl"} -> k = 1 /\ IsC(1)
         [] op \in {"Add", "AddNZCV", "AddWithFlags"} ->
               k = 1 /\ IsC(1) /\ AssemblerIsImmAddSub(c(1)) /\ n.Size >= 4
         [] op \in {"Sub", "SubNZCV", "SubWithFlags"} ->
               \/ k = 1 /\ IsC(1) /\ AssemblerIsImmAddSub(c(1)) /\ n.Size >= 4
               \/ k = 0 /\ IsC(0) /\ c(0) = Zero /\ (stated \/ ~IsC(1))
         [] op \in {"Adc", "AdcWithFlags", "RmifNZCV"} -> k = 0 /\ IsC(0) /\ c(0) = Zero
         [] op \in {"CondAddNZCV", "CondSubNZCV"} ->
               \/ k = 1 /\ IsC(1) /\ AssemblerIsImmAddSub(c(1))
               \/ k = 0 /\ IsC(0) /\ c(0) = Zero
         [] op \in {"TestNZ", "Or", "Xor", "And", "AndWithFlags", "Andn"} ->
               k = 1 /\ IsC(1)
                 /\ AssemblerIsImmLogical(c(1), IF n.Size * 8 < 32 THEN 32 ELSE n.Size * 8)
         [] op = "Select" ->
               \/ k = 1 /\ IsC(1) /\ AssemblerIsImmAddSub(c(1))
               \/ k \in {2, 3} /\ IsC(2) /\ IsC(3)
                    /\ (c(2) = Bits(1) \/ c(2) = ones) /\ c(3) = Zero
         [] op = "NZCVSelect" ->
               \/ k = 1 /\ IsC(1) /\ c(1) = Zero
               \/ k = 0 /\ IsC(1) /\ c(1) = Zero /\ IsC(0)
                    /\ (c(0) = Bits(1) \/ c(0) = ones)
         [] op = "CondJump" -> k = 1 /\ IsC(1) /\ AssemblerIsImmAddSub(c(1))
         [] op = "ExitFunction" -> k = 0 /\ IsC(0)
         [] op \in {"LoadMem", "Prefetch"} ->
               k = 1 /\ sxtx /\ IsC(1) /\ IsImmMemory(c(1), n.Size)
         [] op = "StoreMem" -> k = 2 /\ sxtx /\ IsC(2) /\ IsImmMemory(c(2), n.Size)
         [] op = "LoadMemTSO" -> k = 1 /\ tso /\ sxtx /\ IsC(1) /\ IsSIMM9Range(c(1))
         [] op = "StoreMemTSO" -> k = 2 /\ tso /\ sxtx /\ IsC(2) /\ IsSIMM9Range(c(2))
         [] op = "MemCpy" -> k = 3 /\ IsC(3)
         [] op = "MemSet" -> k = 4 /\ IsC(4)
         [] OTHER -> FALSE

\* The value an eligible operand is inlined as: a shift amount is masked to
\* 31 (Size <= 4) or 63, any other operand is taken as it is.
InlinedValue(I, h, k) ==
    LET n == I.nodes[h]
        v == I.nodes[Arg(n, k)].Constant
    IN IF n.Op \in {"Lshr", "Ashr", "Ror", "Lshl"}
       THEN v \cap (IF n.Size <= 4 THEN Bits(31) ELSE Bits(63))
       ELSE v

\* A step of C3 on a node replaces exactly the node's eligible operands,
\* each by an InlineConstant of the value the table gives; every other
\* operand keeps its edge (but for the NewRIP of an ExitFunction, which may
\* become an InlineEntrypointOffset), and no other node is changed.
InliningFollowsTable(stated) ==
    (pc = "C3" /\ cur # 0) =>
        /\ \A k \in 0..(Len(ir.nodes[cur].Args) - 1) :
              LET old == ir.nodes[cur].Args[k + 1]
                  new == ir'.nodes[cur].Args[k + 1]
              IN IF Eligible(ir, SupportsTSOImm9, cur, k, stated)
                 THEN /\ ir'.nodes[new].Op = "InlineConstant"
                      /\ ir'.nodes[new].Constant = InlinedValue(ir, cur, k)
                 ELSE \/ new = old
                      \/ /\ ir.nodes[cur].Op = "ExitFunction"
                         /\ ir.nodes[old].Op = "EntrypointOffset"
                         /\ ir'.nodes[new].Op = "InlineEntrypointOffset"
        /\ \A h \in DOMAIN ir.nodes : h # cur => ir'.nodes[h] = ir.nodes[h]

\* C5 (as stated): C3 replaces an operand by an InlineConstant if and only
\* if the operand is listed for the node's opcode in the table and was a
\* Constant satisfying the row's predicate; argument 0 of Sub, SubNZCV and
\* SubWithFlags is inlined whenever it is Constant 0, whatever argument 1 is.
C5_InliningAsStated == [][InliningFollowsTable(TRUE)]_vars

\* C5 (amended): the same, except that argument 0 of Sub, SubNZCV and
\* SubWithFlags is inlined only when it is Constant 0 and argument 1 is not
\* a Constant node at all, and that allOnes in the Select and NZCVSelect rows
\* is 64 ones for Size 8 and 0xFFFFFFFF for every other Size.
C5_InliningFollowsCode == [][InliningFollowsTable(FALSE)]_vars

\* C5 witness: C3 has visited a SubNZCV whose argument 1 was inlined while
\* its argument 0 is still the Constant 0 it was.
C5_Witness ==
    /\ pc = "C3"
    /\ \E h \in DOMAIN ir.nodes :
          /\ ir.nodes[h].Op = "SubNZCV"
          /\ ir.nodes[Arg(ir.nodes[h], 0)].Op = "Constant"
          /\ ir.nodes[Arg(ir.nodes[h], 0)].Constant = Zero
          /\ ir.nodes[Arg(ir.nodes[h], 1)].Op = "InlineConstant"

InlineOps == {"InlineConstant", "InlineEntrypointOffset"}

\* The step created a node of C3, or made an operand an edge to one.
InliningRewrite ==
    \/ \E h \in DOMAIN ir'.nodes : h \notin DOMAIN ir.nodes /\ ir'.nodes[h].Op \in InlineOps
    \/ \E h \in DOMAIN ir.nodes : \E k \in DOMAIN ir'.nodes[h].Args :
          /\ ir'.nodes[h].Args[k] # Arg(ir.nodes[h], k - 1)
          /\ ir'.nodes[h].Args[k] # InvalidNode
          /\ ir'.nodes[ir'.nodes[h].Args[k]].Op \in InlineOps

\* C6: Run executes C1 over every block, then C2 over every code node, then
\* C3.  C1 touches its maps only before C2 has begun; a rewrite of C2
\* happens only once C1 has finished all blocks; a rewrite of C3 happens only
\* once C2 has finished all nodes, and only if InlineConstants is set; with
\* InlineConstants = FALSE the IR never holds an InlineConstant or an
\* InlineEntrypointOffset node.
C6_RunOrder ==
    [][/\ (ConstPool' # ConstPool \/ AddressgenConsts' # AddressgenConsts) =>
              (pc = "C1" /\ finished = {})
       /\ (rw' # rw /\ rw' # NoRewrite) =>
              (pc = "C2" /\ finished = {"C1"} /\ blk > Len(ir.blocks))
       /\ InliningRewrite =>
              (pc = "C3" /\ finished = {"C1", "C2"} /\ InlineConstants)
       /\ ~InlineConstants =>
              \A h \in DOMAIN ir'.nodes : ir'.nodes[h].Op \notin InlineOps]_vars

\* C6 witness: C3 is running after C1 and C2 have finished, and has inlined
\* an operand of a node that C2 created (the Lshl of a rewritten Mul, the
\* Or or Andn of a rewritten Bfi) or flipped.
C6_Witness ==
    /\ pc = "C3"
    /\ finished = {"C1", "C2"}
    /\ InlineConstants
    /\ \E h \in DOMAIN ir.nodes :
          /\ ir.nodes[h].Op \in {"Lshl", "Or", "Andn", "Sub"}
          /\ ir.nodes[Arg(ir.nodes[h], 1)].Op = "InlineConstant"
          /\ ir.nodes[Arg(ir.nodes[h], 1)].ID > ir.nodes[h].ID

\* The step C1 takes when it visits a Constant(v) node N with ID i.  If v
\* is pooled at (N0, i0) and i - i0 > 500, the entry becomes (N, i) and no
\* node changes; if v is pooled and the difference is at most 500, every use
\* of N at or after N's position is redirected to N0, the entry stays, and
\* N0 is an earlier Constant of the same block with the same value and an ID
\* at most 500 below i; if v is not pooled, (N, i) is inserted.  With
\* unsigned set, i - i0 is the difference of the identifiers as unsigned
\* 32-bit numbers (identifiers stay far below 2^31, so it exceeds 500
\* whenever i < i0); otherwise it is the difference of the integers.
PoolingRule(unsigned) ==
    (pc = "C1" /\ cur # 0 /\ ir.nodes[cur].Op = "Constant") =>
        LET v     == ir.nodes[cur].Constant
            i     == ir.nodes[cur].ID
            at    == PosOf(ir, cur)
            entry == [Node |-> cur, NodeID |-> i]
            put   == [x \in DOMAIN ConstPool \cup {v} |->
                         IF x = v THEN entry ELSE ConstPool[x]]
        IN /\ ir'.blocks = ir.blocks
           /\ IF v \in DOMAIN ConstPool
              THEN LET N0 == ConstPool[v].Node
                       i0 == ConstPool[v].NodeID
                   IN IF (unsigned /\ i < i0) \/ i - i0 > 500
                      THEN ConstPool' = put /\ ir'.nodes = ir.nodes
                      ELSE /\ ConstPool' = ConstPool
                           /\ ir'.nodes =
                                [h \in DOMAIN ir.nodes |->
                                   IF PosOf(ir, h) >= at
                                   THEN [ir.nodes[h] EXCEPT !.Args =
                                           [k \in DOMAIN ir.nodes[h].Args |->
                                              IF ir.nodes[h].Args[k] = cur THEN N0
                                              ELSE ir.nodes[h].Args[k]]]
                                   ELSE ir.nodes[h]]
                           /\ ir.nodes[N0].Op = "Constant"
                           /\ ir.nodes[N0].Constant = v
                           /\ ir.nodes[N0].ID = i0
                           /\ BlockOf(ir, N0) = blk
                           /\ PosOf(ir, N0) < at
                           /\ i - i0 \in 0..500
              ELSE ConstPool' = put /\ ir'.nodes = ir.nodes

\* C7 (as stated): the pooling rule of C1 holds of every visit of a Constant
\* node, i - i0 being the difference of the two IDs.
C7_PoolingRule == [][PoolingRule(FALSE)]_vars

\* C7 (amended): the pooling rule of C1 holds of every visit of a Constant
\* node, i - i0 being computed modulo 2^32: a pooled representative whose ID
\* is above the visited node's is replaced by the visited node, and no use is
\* redirected.
C7_PoolingRuleUnsigned == [][PoolingRule(TRUE)]_vars

\* C7 witness: C1 is in a block where a Constant whose ID is exactly 500
\* above its representative's has lost its uses to the representative.
C7_Witness ==
    /\ pc = "C1"
    /\ \E v \in DOMAIN ConstPool : \E h \in DOMAIN ir.nodes :
          /\ ir.nodes[h].Op = "Constant"
          /\ ir.nodes[h].Constant = v
          /\ BlockOf(ir, h) = blk
          /\ ir.nodes[h].ID = ConstPool[v].NodeID + 500
          /\ cur # 0 /\ PosOf(ir, h) < PosOf(ir, cur)
          /\ Users(ir, h) = {}
          /\ Users(ir, ConstPool[v].Node) # {}

\* C8: when Run has returned, no block holds two Constant nodes of equal
\* value that are both still referenced by some operand, unless their IDs
\* are more than 500 apart; the Constant nodes the pass created are included.
C8_PooledResult ==
    (pc = "Idle" /\ runs >= 1) =>
        \A b \in DOMAIN ir.blocks :
            \A i \in DOMAIN ir.blocks[b], j \in DOMAIN ir.blocks[b] :
                LET N1 == ir.nodes[ir.blocks[b][i]]
                    N2 == ir.nodes[ir.blocks[b][j]]
                IN (/\ i < j
                    /\ N1.Op = "Constant" /\ N2.Op = "Constant"
                    /\ N1.Constant = N2.Constant
                    /\ Users(ir, ir.blocks[b][i]) # {}
                    /\ Users(ir, ir.blocks[b][j]) # {})
                   => (N2.ID - N1.ID > 500 \/ N1.ID - N2.ID > 500)

\* S < T as unsigned 64-bit numbers.
LessU64(S, T) ==
    \E i \in T \ S : \A j \in U64 : j > i => ((j \in S) <=> (j \in T))

\* A lies within 65535 of B.
Within65535(A, B) ==
    \/ ~LessU64(A, B) /\ SubU64(A, B) \subseteq LowBits(16)
    \/ ~LessU64(B, A) /\ SubU64(B, A) \subseteq LowBits(16)

\* The node C1 is about to visit is a LoadMem or StoreMem with a Constant
\* address and an invalid offset operand.
VisitsConstantAddress ==
    /\ pc = "C1"
    /\ cur # 0
    /\ ir.nodes[cur].Op \in {"LoadMem", "StoreMem"}
    /\ ir.nodes[Arg(ir.nodes[cur], 0)].Op = "Constant"
    /\ Arg(ir.nodes[cur], IF ir.nodes[cur].Op = "LoadMem" THEN 1 ELSE 2) = InvalidNode

\* The address nodes of the LoadMem / StoreMem ops before the visited node
\* in its block that have a Constant address and an invalid offset operand.
PriorAddresses ==
    {Arg(ir.nodes[p], 0) :
        p \in {q \in DOMAIN ir.nodes :
                 /\ BlockOf(ir, q) = blk
                 /\ PosOf(ir, q) < PosOf(ir, cur)
                 /\ ir.nodes[q].Op \in {"LoadMem", "StoreMem"}
                 /\ ir.nodes[Arg(ir.nodes[q], 0)].Op = "Constant"
                 /\ Arg(ir.nodes[q], IF ir.nodes[q].Op = "LoadMem" THEN 1 ELSE 2)
                        = InvalidNode}}

\* The step rewrote the visited op to use one of the given nodes as base and
\* a Constant created by the step, placed before the op in its block, as
\* offset, base + offset being the address A the op had.
CoalescedOnto(bases) ==
    LET n   == ir.nodes[cur]
        oi  == IF n.Op = "LoadMem" THEN 1 ELSE 2
        A   == ir.nodes[Arg(n, 0)].Constant
        new == Len(ir.nodes) + 1
        B   == Arg(ir'.nodes[cur], 0)
    IN /\ Len(ir'.nodes) = new
       /\ B \in bases
       /\ Arg(ir'.nodes[cur], oi) = new
       /\ ir'.nodes[new].Op = "Constant"
       /\ AddU64(ir.nodes[B].Constant, ir'.nodes[new].Constant) = A
       /\ BlockOf(ir', new) = blk
       /\ PosOf(ir', new) < PosOf(ir', cur)
       /\ \A h \in DOMAIN ir.nodes : h # cur => ir'.nodes[h] = ir.nodes[h]

\* C9 (as stated): a LoadMem / StoreMem with an invalid offset operand and a
\* constant address A that lies within 65535 of the constant address B of a
\* prior such op of the block, that op still having its invalid offset
\* operand, is rewritten to use B's node as base and a new Constant(A - B)
\* as offset.
C9_CoalescesWithin65535 ==
    [][VisitsConstantAddress =>
          LET A    == ir.nodes[Arg(ir.nodes[cur], 0)].Constant
              near == {c \in PriorAddresses : Within65535(A, ir.nodes[c].Constant)}
          IN near # {} => CoalescedOnto(near)]_vars

\* C9 (amended): such an op is rewritten exactly when A lies at or above B
\* by at most 65535 in unsigned 64-bit arithmetic, (A - B) mod 2^64 < 65536,
\* for the constant address B of a prior such op of the block that still has
\* its invalid offset operand (one that was not itself rewritten); the new
\* offset is then below 65536 and base + offset = A.  An op whose address
\* lies below every such B, or 65536 or more above, is left as it is.
C9_CoalescesUpward ==
    [][VisitsConstantAddress =>
          LET A    == ir.nodes[Arg(ir.nodes[cur], 0)].Constant
              near == {c \in PriorAddresses :
                          SubU64(A, ir.nodes[c].Constant) \subseteq LowBits(16)}
          IN IF near # {}
             THEN /\ CoalescedOnto(near)
                  /\ ir'.nodes[Len(ir'.nodes)].Constant \subseteq LowBits(16)
             ELSE ir'.nodes = ir.nodes /\ ir'.blocks = ir.blocks]_vars

\* C9 witness: C1 has rewritten a memory op of address 0x1040 to the base
\* Constant 0x1000 and the offset Constant 0x40.
C9_Witness ==
    /\ pc = "C1"
    /\ \E h \in DOMAIN ir.nodes :
          /\ ir.nodes[h].Op \in {"LoadMem", "StoreMem"}
          /\ BlockOf(ir, h) = blk
          /\ ir.nodes[Arg(ir.nodes[h], 0)].Op = "Constant"
          /\ ir.nodes[Arg(ir.nodes[h], 0)].Constant = Bits(4096)
          /\ LET o == Arg(ir.nodes[h], IF ir.nodes[h].Op = "LoadMem" THEN 1 ELSE 2)
             IN /\ o # InvalidNode
                /\ ir.nodes[o].Op = "Constant"
                /\ ir.nodes[o].Constant = Bits(64)

\* C10: ConstPool and AddressgenConsts are empty whenever C1 is not running
\* (so when Run returns and when a later Run begins) and when C1 starts a
\* block; while C1 walks a block, every pool entry is a Constant of that
\* block that C1 has passed, with the value and ID recorded, and every
\* recorded address belongs to a memory op of that block that C1 has passed.
C10_MapsPerBlock ==
    /\ pc # "C1" => (ConstPool = EmptyMap /\ AddressgenConsts = EmptyMap)
    /\ (pc = "C1" /\ cur # 0 /\ cur = Head(ir.blocks[blk])) =>
            (ConstPool = EmptyMap /\ AddressgenConsts = EmptyMap)
    /\ pc = "C1" =>
          /\ \A v \in DOMAIN ConstPool :
                LET N == ConstPool[v].Node
                IN /\ BlockOf(ir, N) = blk
                   /\ cur # 0 => PosOf(ir, N) < PosOf(ir, cur)
                   /\ ir.nodes[N].Op = "Constant"
                   /\ ir.nodes[N].Constant = v
                   /\ ir.nodes[N].ID = ConstPool[v].NodeID
          /\ \A c \in DOMAIN AddressgenConsts :
                /\ ir.nodes[c].Op = "Constant"
                /\ ir.nodes[c].Constant = AddressgenConsts[c]
                /\ \E p \in DOMAIN ir.nodes :
                      /\ BlockOf(ir, p) = blk
                      /\ cur # 0 => PosOf(ir, p) < PosOf(ir, cur)
                      /\ ir.nodes[p].Op \in {"LoadMem", "StoreMem"}
                      /\ Arg(ir.nodes[p], 0) = c

\* C10 witness: C1 starts the second block with both maps empty, the first
\* block holding Constant nodes and a memory op of a constant address.
C10_Witness ==
    /\ pc = "C1"
    /\ blk = 2
    /\ cur = Head(ir.blocks[2])
    /\ ConstPool = EmptyMap
    /\ AddressgenConsts = EmptyMap
    /\ \E p \in DOMAIN ir.nodes :
          /\ BlockOf(ir, p) = 1
          /\ ir.nodes[p].Op \in {"LoadMem", "StoreMem"}
          /\ ir.nodes[Arg(ir.nodes[p], 0)].Op = "Constant"
          /\ Arg(ir.nodes[p], IF ir.nodes[p].Op = "LoadMem" THEN 1 ELSE 2) = InvalidNode

\* The node C2 is about to visit is an And whose right operand is Constant 1
\* and whose left operand is a Select with Constant 1 and Constant 0 as
\* third and fourth arguments.
AndOfSelect ==
    /\ pc = "C2"
    /\ cur # 0
    /\ ir.nodes[cur].Op = "And"
    /\ ir.nodes[Arg(ir.nodes[cur], 1)].Op = "Constant"
    /\ ir.nodes[Arg(ir.nodes[cur], 1)].Constant = Bits(1)
    /\ LET s == ir.nodes[Arg(ir.nodes[cur], 0)]
       IN /\ s.Op = "Select"
          /\ ir.nodes[Arg(s, 2)].Op = "Constant"
          /\ ir.nodes[Arg(s, 2)].Constant = Bits(1)
          /\ ir.nodes[Arg(s, 3)].Op = "Constant"
          /\ ir.nodes[Arg(s, 3)].Constant = Zero

\* C11: C2 redirects every use of an And of a Select(_, _, 1, 0) and
\* Constant 1 to the Select: after the step every operand edge that referred
\* to the And refers to the Select, and no other edge has changed.
C11_AndOfSelectEliminated ==
    [][AndOfSelect =>
          /\ Users(ir, cur) # {} => Users(ir', cur) = {}
          /\ \A u \in DOMAIN ir.nodes : \A k \in DOMAIN ir.nodes[u].Args :
                ir'.nodes[u].Args[k] =
                    IF ir.nodes[u].Args[k] = cur THEN Arg(ir.nodes[cur], 0)
                    ELSE ir.nodes[u].Args[k]]_vars

\* The node C2 is about to visit is an Add, Sub, AddWithFlags or
\* SubWithFlags that the fold of two constants does not apply to.
UnfoldedAddSub ==
    /\ pc = "C2"
    /\ cur # 0
    /\ ir.nodes[cur].Op \in {"Add", "Sub", "AddWithFlags", "SubWithFlags"}
    /\ ~(/\ ir.nodes[cur].Op \in {"Add", "Sub"}
         /\ ir.nodes[Arg(ir.nodes[cur], 0)].Op = "Constant"
         /\ ir.nodes[Arg(ir.nodes[cur], 1)].Op = "Constant")

\* Its right operand is a Constant c2 that is no add/sub immediate while
\* -c2 mod 2^64 is one.
NegationFits ==
    LET r == ir.nodes[Arg(ir.nodes[cur], 1)]
    IN /\ r.Op = "Constant"
       /\ ~AssemblerIsImmAddSub(r.Constant)
       /\ AssemblerIsImmAddSub(NegU64(r.Constant))

\* C12: such a node is flipped when the negation of its constant right
\* operand fits the immediate field and the constant itself does not: the
\* opcode becomes the opposite one, Size and left operand stay, the right
\* operand becomes a new Constant(-c2) placed immediately before the node,
\* no other node changes and the node computes the same value modulo its
\* width; in every other case the node and the program are left unchanged.
C12_AddSubFlip ==
    [][UnfoldedAddSub =>
          LET n   == ir.nodes[cur]
              new == Len(ir.nodes) + 1
          IN IF NegationFits
             THEN /\ Len(ir'.nodes) = new
                  /\ ir'.nodes[cur] =
                        [n EXCEPT !.Op = (CASE n.Op = "Add" -> "Sub"
                                            [] n.Op = "Sub" -> "Add"
                                            [] n.Op = "AddWithFlags" -> "SubWithFlags"
                                            [] n.Op = "SubWithFlags" -> "AddWithFlags"),
                                  !.Args = <<Arg(n, 0), new>>]
                  /\ ir'.nodes[new].Op = "Constant"
                  /\ ir'.nodes[new].Constant = NegU64(ir.nodes[Arg(n, 1)].Constant)
                  /\ BlockOf(ir', new) = BlockOf(ir, cur)
                  /\ PosOf(ir', new) + 1 = PosOf(ir', cur)
                  /\ \A h \in DOMAIN ir.nodes : h # cur => ir'.nodes[h] = ir.nodes[h]
                  /\ \A e \in Valuations : Eval(ir', cur, e) = Eval(ir, cur, e)
             ELSE ir'.nodes = ir.nodes /\ ir'.blocks = ir.blocks]_vars

\* C12 witness: C2 has flipped an Add of a loaded value and the constant
\* 0xFFFFFFFFFFFFF000 into a Sub of 0x1000.
C12_Witness ==
    /\ pc = "C2"
    /\ rw.kind = "flip"
    /\ rw.op = "Add"
    /\ ir.nodes[rw.node].Op = "Sub"
    /\ ir.nodes[Arg(ir.nodes[rw.node], 0)].Op = "LoadContext"
    /\ ir.nodes[Arg(ir.nodes[rw.node], 1)].Op = "Constant"
    /\ ir.nodes[Arg(ir.nodes[rw.node], 1)].Constant = Bits(4096)

\* The node C2 is about to visit is a Bfe with lsb zero whose width is the
\* bit width of its source.
FullWidthBfe ==
    /\ pc = "C2"
    /\ cur # 0
    /\ ir.nodes[cur].Op = "Bfe"
    /\ ir.nodes[cur].lsb = 0
    /\ ir.nodes[cur].Width = ir.nodes[Arg(ir.nodes[cur], 0)].Size * 8

\* The step redirected every use of the visited node to its first operand.
UsesRedirectedToSource ==
    /\ rw'.kind = "redirect"
    /\ rw'.node = cur
    /\ rw'.target = Arg(ir.nodes[cur], 0)
    /\ Users(ir', cur) = {}

\* C13 (as stated): a Bfe with lsb zero whose width equals the bit width of
\* its source is never eliminated by C2, whatever the opcode of its source.
C13_FullWidthBfeKept ==
    [][FullWidthBfe => ~UsesRedirectedToSource]_vars

\* C13 (amended): a Bfe with lsb zero whose width equals the bit width of
\* its source is not eliminated on the ground of being a full-width
\* extract.  Its uses are redirected to its source exactly when the source
\* is a LoadMem, LoadMemTSO or LoadContext, or a Bfe whose width does not
\* exceed this width; when the source is a Constant (and Size <= 8) the node
\* is folded to a Constant; with any other source the node and the program
\* are left unchanged.
C13_FullWidthBfeRule ==
    [][FullWidthBfe =>
          LET n == ir.nodes[cur]
              s == ir.nodes[Arg(n, 0)]
          IN IF s.Op \in {"LoadMem", "LoadMemTSO", "LoadContext"}
                   \/ (s.Op = "Bfe" /\ s.Width <= n.Width)
             THEN UsesRedirectedToSource
             ELSE IF s.Op = "Constant" /\ n.Size <= 8
             THEN /\ rw'.kind = "constant"
                  /\ ir'.nodes[cur].Op = "Constant"
                  /\ Users(ir', cur) = Users(ir, cur)
             ELSE ir'.nodes = ir.nodes /\ ir'.blocks = ir.blocks]_vars

\* C13 witness: C2 has passed a Bfe of lsb 0 and width 32 whose source is a
\* Select of Size 4, and has left it in place with its user.
C13_Witness ==
    /\ pc = "C2"
    /\ rw.kind = "none"
    /\ \E h \in DOMAIN ir.nodes :
          /\ ir.nodes[h].Op = "Bfe"
          /\ ir.nodes[h].lsb = 0
          /\ ir.nodes[h].Width = 32
          /\ ir.nodes[Arg(ir.nodes[h], 0)].Op = "Select"
          /\ ir.nodes[Arg(ir.nodes[h], 0)].Size = 4
          /\ Users(ir, h) # {}
          /\ cur # 0
          /\ PosOf(ir, cur) = PosOf(ir, h) + 1

\* Every operand of every node refers to a node that comes earlier in
\* program order.
OperandsComeFirst(I) ==
    \A u \in DOMAIN I.nodes : \A k \in DOMAIN I.nodes[u].Args :
        I.nodes[u].Args[k] # InvalidNode =>
            PosOf(I, I.nodes[u].Args[k]) < PosOf(I, u)

\* C14: emission ordering.  The input has every operand defined before its
\* user; at every point of every Run, and so after it, every node comes
\* after the nodes it references: the nodes the pass created come before
\* the nodes that reference them, and the replacements that uses were
\* redirected to come before the redirected users.
C14_EmissionOrder == OperandsComeFirst(ir)

\* C14 witness: Run has returned with an operand inlined in each block from
\* one InlineConstant node, placed in the first block.
C14_Witness ==
    /\ pc = "Idle"
    /\ runs >= 1
    /\ \E c \in DOMAIN ir.nodes : \E u \in Users(ir, c), v \in Users(ir, c) :
          /\ ir.nodes[c].Op = "InlineConstant"
          /\ BlockOf(ir, c) = 1
          /\ BlockOf(ir, u) = 1
          /\ BlockOf(ir, v) = 2

\* The InlineConstant nodes that the step from ir to ir' created.
CreatedInlineConstants ==
    {h \in DOMAIN ir'.nodes : h \notin DOMAIN ir.nodes /\ ir'.nodes[h].Op = "InlineConstant"}

\* The InlineConstant nodes that the step made an operand of some node.
InlinedOperands ==
    {x \in DOMAIN ir'.nodes :
        /\ ir'.nodes[x].Op = "InlineConstant"
        /\ \E u \in DOMAIN ir.nodes : \E k \in DOMAIN ir'.nodes[u].Args :
              /\ ir'.nodes[u].Args[k] = x
              /\ Arg(ir.nodes[u], k - 1) # x}

\* C15: the cache is empty when a run of C3 starts; during the run it only
\* grows, and holds for each value the one InlineConstant node this run
\* created for it: a step creates an InlineConstant node only for a value
\* the cache does not hold, creates at most one per value, and records it;
\* every operand a step inlines becomes the cached node of its value.  So
\* one run creates at most one InlineConstant per value, all operands
\* inlined with that value in the run share it, and no InlineConstant of an
\* earlier Run is referenced by a rewrite of a later Run.
C15_InlineConstantCache ==
    [][/\ (pc # "C3" /\ pc' = "C3") => InlineConstantGen' = EmptyMap
       /\ pc # "C3" => CreatedInlineConstants = {}
       /\ pc = "C3" =>
             /\ \A v \in DOMAIN InlineConstantGen :
                   /\ v \in DOMAIN InlineConstantGen'
                   /\ InlineConstantGen'[v] = InlineConstantGen[v]
             /\ \A v \in DOMAIN InlineConstantGen' :
                   v \notin DOMAIN InlineConstantGen =>
                       InlineConstantGen'[v] \in CreatedInlineConstants
             /\ \A h \in CreatedInlineConstants :
                   /\ ir'.nodes[h].Constant \notin DOMAIN InlineConstantGen
                   /\ ir'.nodes[h].Constant \in DOMAIN InlineConstantGen'
                   /\ InlineConstantGen'[ir'.nodes[h].Constant] = h
             /\ \A x \in InlinedOperands :
                   /\ ir'.nodes[x].Constant \in DOMAIN InlineConstantGen'
                   /\ InlineConstantGen'[ir'.nodes[x].Constant] = x]_vars

\* C15 witness: a second run of C3 has inlined the shift amount of an Lshl
\* with an InlineConstant node of its own, while an InlineConstant of the
\* same value that the first run created is still in the IR.
C15_Witness ==
    /\ pc = "C3"
    /\ runs = 1
    /\ \E v \in DOMAIN InlineConstantGen : \E old \in DOMAIN ir.nodes :
          /\ old # InlineConstantGen[v]
          /\ ir.nodes[old].Op = "InlineConstant"
          /\ ir.nodes[old].Constant = v
          /\ Users(ir, old) # {}
          /\ Users(ir, InlineConstantGen[v]) # {}

\* The node C2 is about to visit is a Bfe whose source is a Bfe.
BfeOfBfe ==
    /\ pc = "C2"
    /\ cur # 0
    /\ ir.nodes[cur].Op = "Bfe"
    /\ ir.nodes[Arg(ir.nodes[cur], 0)].Op = "Bfe"

\* C16 (as stated): the uses of a Bfe of a Bfe are redirected to the source
\* when the source's width is greater than or equal to this Bfe's width,
\* and are not when the source's width is smaller.
C16_RedirectsWhenSourceWider ==
    [][BfeOfBfe =>
          (UsesRedirectedToSource <=>
              ir.nodes[Arg(ir.nodes[cur], 0)].Width >= ir.nodes[cur].Width)]_vars

\* C16 (amended): the uses of a Bfe of a Bfe are redirected to the source
\* when the source's width is less than or equal to this Bfe's width,
\* whatever the two lsb are, and the node and the program are left unchanged
\* when the source's width is greater.
C16_RedirectsWhenSourceNarrower ==
    [][BfeOfBfe =>
          IF ir.nodes[Arg(ir.nodes[cur], 0)].Width <= ir.nodes[cur].Width
          THEN /\ UsesRedirectedToSource
               /\ \A u \in DOMAIN ir.nodes : \A k \in DOMAIN ir.nodes[u].Args :
                     ir'.nodes[u].Args[k] =
                         IF ir.nodes[u].Args[k] = cur THEN Arg(ir.nodes[cur], 0)
                         ELSE ir.nodes[u].Args[k]
          ELSE ir'.nodes = ir.nodes /\ ir'.blocks = ir.blocks]_vars

\* C16 witness: C2 has redirected the uses of a Bfe of width 16 to its
\* source, a Bfe of width 8.
C16_Witness ==
    /\ pc = "C2"
    /\ rw.kind = "redirect"
    /\ ir.nodes[rw.node].Op = "Bfe"
    /\ ir.nodes[rw.node].Width = 16
    /\ ir.nodes[rw.target].Op = "Bfe"
    /\ ir.nodes[rw.target].Width = 8
    /\ Arg(ir.nodes[rw.node], 0) = rw.target
    /\ Users(ir, rw.node) = {}
    /\ Users(ir, rw.target) # {}

=============================================================================
